---------------------------- MODULE Spec2Model ----------------------------
(***************************************************************************)
(* Model of the gridstatus backend: the in-memory TTL cache                *)
(* (services/cache.py), the grid-data retrievals built on it               *)
(* (services/grid_data.py), the weather coroutine (services/weather.py)    *)
(* and the market routes (routes/market.py).                               *)
(*                                                                         *)
(* Python values are modelled as records so that any two of them can be    *)
(* compared: None is the record None, a str is Str(s), a dict is a record  *)
(* of its keys, an exception is Exc(type, msg). A dict whose order of      *)
(* keys is read (the sources of a fuel mix) is the sequence of its         *)
(* <<key, value>> items in that order.                                     *)
(***************************************************************************)
EXTENDS Integers, Sequences, FiniteSets, TLC

VARIABLES
    now,      \* time.time(), in whole seconds
    ticks,    \* number of clock advances so far (bounds the exploration)
    store,    \* TTLCache._store of the module-level `cache`: key -> <<expires_at, value>>
    lastSet,  \* history: key -> the arguments and time of the last cache.set on it
    res,      \* the last operation and what it returned or raised
    hs,       \* per request handler: where its get_weather coroutine is suspended
    focus     \* the entry point exercised in this behaviour (fixed at the start)

vars == <<now, ticks, store, lastSet, res, hs, focus>>

---------------------------------------------------------------------------
(* Python values *)

None == [type |-> "NoneType"]
Str(s) == [type |-> "str", s |-> s]
Exc(t, m) == [type |-> t, msg |-> m]

\* A dict is a record; every dict the program caches has at least one key.
\* bool(v) as used by `if cached:`; None is the only falsy value the cache returns here.
Truthy(v) == v # None

Returned(v, calls) == [tag |-> "return", value |-> v, calls |-> calls]
Raised(e, calls) == [tag |-> "raise", value |-> e, calls |-> calls]

NoRes == [op |-> "none"]

---------------------------------------------------------------------------
(* services/cache.py: TTLCache *)

\* dict without one key (del self._store[key])
Del(st, key) == [k \in (DOMAIN st) \ {key} |-> st[k]]

\* MUTANT of Put: dict.setdefault, an existing entry is kept
Put_SetDefault(st, key, entry) ==
    [k \in (DOMAIN st) \cup {key} |-> IF k \in DOMAIN st THEN st[k] ELSE entry]

\* dict item assignment (self._store[key] = entry)
Put(st, key, entry) == [k \in (DOMAIN st) \cup {key} |-> IF k = key THEN entry ELSE st[k]]

\* MUTANT of CacheGet: the expiry test is <= instead of <
CacheGet_InclusiveExpiry(st, t, key) ==
    IF key \in DOMAIN st
    THEN IF t <= st[key][1]
         THEN [value |-> st[key][2], store |-> st]
         ELSE [value |-> None, store |-> Del(st, key)]
    ELSE [value |-> None, store |-> st]

\* TTLCache.get at time t: the value returned and the store afterwards
CacheGet(st, t, key) ==
    IF key \in DOMAIN st
    THEN IF t < st[key][1]
         THEN [value |-> st[key][2], store |-> st]
         ELSE [value |-> None, store |-> Del(st, key)]
    ELSE [value |-> None, store |-> st]

\* MUTANT of CacheSet: a live entry keeps its old expiry (only the value is replaced)
CacheSet_KeepExpiry(st, t, key, value, ttl) ==
    IF key \in DOMAIN st /\ t < st[key][1]
    THEN Put(st, key, <<st[key][1], value>>)
    ELSE Put(st, key, <<t + ttl, value>>)

\* TTLCache.set at time t: the store afterwards
CacheSet(st, t, key, value, ttl) == Put(st, key, <<t + ttl, value>>)

\* history of cache.set calls: `sets` are the calls (key, ttl, value, and the
\* time `at` of the call) made on the store stBefore; `over` tells what each
\* one replaced
Logged(ls, stBefore, sets) ==
    [k \in (DOMAIN ls) \cup {s.key : s \in sets} |->
        IF \E s \in sets : s.key = k
        THEN LET s == CHOOSE x \in sets : x.key = k
             IN  [at |-> s.at, ttl |-> s.ttl, value |-> s.value,
                  over |-> IF k \notin DOMAIN stBefore THEN "absent"
                           ELSE IF s.at < stBefore[k][1] THEN "live" ELSE "expired"]
        ELSE ls[k]]

---------------------------------------------------------------------------
(* The cache on its own: arbitrary set/get calls and clock advances *)

MaxClock == 4
MaxTTL == 2
CacheKeys == {"a", "b"}
CacheValues == {[data |-> 1], [data |-> 2]}
TTLs == 1..MaxTTL

EmptyStore == [k \in {} |-> <<0, None>>]
EmptyLog == [k \in {} |-> [at |-> 0, ttl |-> 0, value |-> None, over |-> "absent"]]
NoHandlers == [h \in {} |-> None]

InitCache ==
    /\ now = 0
    /\ ticks = 0
    /\ store = EmptyStore
    /\ lastSet = EmptyLog
    /\ res = NoRes
    /\ hs = NoHandlers
    /\ focus = "cache"

CacheSetOp(k, v, t) ==
    /\ store' = CacheSet(store, now, k, v, t)
    /\ lastSet' = Logged(lastSet, store, {[key |-> k, ttl |-> t, value |-> v, at |-> now]})
    /\ res' = [op |-> "set", key |-> k, out |-> Returned(None, <<>>)]
    /\ UNCHANGED <<now, ticks, hs, focus>>

CacheGetOp(k) ==
    LET r == CacheGet(store, now, k)
    IN  /\ store' = r.store
        /\ res' = [op |-> "get", key |-> k, out |-> Returned(r.value, <<>>)]
        /\ UNCHANGED <<now, ticks, lastSet, hs, focus>>

CacheTick ==
    /\ now < MaxClock
    /\ now' = now + 1
    /\ ticks' = ticks + 1
    /\ res' = NoRes
    /\ UNCHANGED <<store, lastSet, hs, focus>>

NextCache ==
    \/ \E k \in CacheKeys, v \in CacheValues, t \in TTLs : CacheSetOp(k, v, t)
    \/ \E k \in CacheKeys : CacheGetOp(k)
    \/ CacheTick

SpecCache == InitCache /\ [][NextCache]_vars

\* the step just taken was cache.get(k) / cache.set(k, ..)
IsGet(k) == res'.op = "get" /\ res'.key = k /\ now' = now
IsSet(k) == res'.op = "set" /\ res'.key = k /\ now' = now

\* C1: a get at or past the entry's expires_at returns None and removes the
\* entry from the store; a get strictly before expires_at returns the stored
\* value (and leaves the store alone).
C1_ExpiredNeverReturned ==
    [][\A k \in CacheKeys :
        (IsGet(k) /\ k \in DOMAIN store) =>
            IF now >= store[k][1]
            THEN /\ res'.out = Returned(None, <<>>)
                 /\ store' = Del(store, k)
            ELSE /\ res'.out = Returned(store[k][2], <<>>)
                 /\ store' = store]_vars

\* C1 witness: a get made exactly at expires_at returned None and evicted the entry
C1_Witness ==
    /\ res.op = "get"
    /\ res.key \in DOMAIN lastSet
    /\ now = lastSet[res.key].at + lastSet[res.key].ttl
    /\ res.out.value = None
    /\ res.key \notin DOMAIN store

\* C2: after set(k, v, t) at time T with no later set on k, get(k) returns v at
\* every time before T+t and None at every time after T+t; a set always
\* replaces value and expiry (new expiry = time of the set + its ttl), whether
\* the old entry was live, expired or absent.
C2_SetThenGet ==
    [][\A k \in CacheKeys :
        /\ (IsGet(k) /\ k \in DOMAIN lastSet) =>
              LET s == lastSet[k]
              IN  /\ now < s.at + s.ttl => res'.out.value = s.value
                  /\ now > s.at + s.ttl => res'.out.value = None
        /\ IsSet(k) =>
              /\ k \in DOMAIN store'
              /\ store'[k] = <<now + lastSet'[k].ttl, lastSet'[k].value>>
              /\ lastSet'[k].at = now]_vars

\* C2 witness: a set replaced a live entry, and a get made later but before the
\* new expiry returned the new value
C2_Witness ==
    /\ res.op = "get"
    /\ res.key \in DOMAIN lastSet
    /\ lastSet[res.key].over = "live"
    /\ lastSet[res.key].at < now
    /\ now < lastSet[res.key].at + lastSet[res.key].ttl
    /\ res.out.value = lastSet[res.key].value

---------------------------------------------------------------------------
(* The opaque provider (gridstatus.CAISO) and the values it hands back *)

\* a pandas Timestamp, and str() of it
TS(t) == [type |-> "Timestamp", t |-> t]
PyStr(x) == IF x.type = "Timestamp" THEN Str(ToString(x.t)) ELSE Str(ToString(x.v))

\* int(x) of a float given in tenths: truncation toward zero
PyInt(tenths) == IF tenths >= 0 THEN tenths \div 10 ELSE -((-tenths) \div 10)

\* the integer nearest to the exact quotient a / b (b > 0), a quotient halfway
\* between two integers going to the even one. The roundings of the program
\* are those of doubles: they use this one only where the quotient is not
\* halfway, or is a double itself.
NearestInt(a, b) ==
    LET q == a \div b
        r == a % b
    IN  IF 2 * r < b THEN q
        ELSE IF 2 * r > b THEN q + 1
        ELSE IF q % 2 = 0 THEN q ELSE q + 1

\* the absolute value of a number
Abs(x) == IF x < 0 THEN -x ELSE x

\* sum of a sequence of integers
RECURSIVE SumRange(_, _, _)
SumRange(s, lo, hi) ==
    IF lo > hi THEN 0
    ELSE IF lo = hi THEN s[lo]
    ELSE SumRange(s, lo, (lo + hi) \div 2) + SumRange(s, (lo + hi) \div 2 + 1, hi)
SumSeq(s) == SumRange(s, 1, Len(s))

(* Python floats. The prices are IEEE-754 doubles; the model keeps a float as
   the decimal it was read or rounded from (an integer count of thousandths,
   hundredths or tenths, as each field says), plus the two values a decimal
   cannot tell apart: negative zero and NaN. Arithmetic on floats is exact
   binary arithmetic rounded to 53 bits, ties to even; it is carried out on
   natural numbers of any size. *)

\* a float: a finite decimal v (in the unit of its field), -0.0, or NaN
Flt(v) == [type |-> "float", kind |-> "finite", v |-> v]
NegZero == [type |-> "float", kind |-> "-0.0", v |-> 0]
NaN == [type |-> "float", kind |-> "nan", v |-> 0]
IsNaN(x) == x.kind = "nan"

\* the float of magnitude q (a decimal count) and sign neg
Signed(neg, q) == IF q = 0 THEN (IF neg THEN NegZero ELSE Flt(0)) ELSE Flt(IF neg THEN -q ELSE q)

\* a natural number as its digits in base 2^14, least significant first
LimbBits == 14
Limb == 16384

RECURSIVE BigNorm(_)
BigNorm(a) ==
    IF a = <<>> THEN a
    ELSE IF a[Len(a)] = 0 THEN BigNorm(SubSeq(a, 1, Len(a) - 1))
    ELSE a

RECURSIVE BigOfInt(_)
BigOfInt(n) == IF n = 0 THEN <<>> ELSE <<n % Limb>> \o BigOfInt(n \div Limb)

RECURSIVE BigToInt(_)
BigToInt(a) == IF a = <<>> THEN 0 ELSE Head(a) + Limb * BigToInt(Tail(a))

RECURSIVE BigAddC(_, _, _)
BigAddC(a, b, c) ==
    IF a = <<>> /\ b = <<>> THEN (IF c = 0 THEN <<>> ELSE <<c>>)
    ELSE LET s == (IF a = <<>> THEN 0 ELSE Head(a)) + (IF b = <<>> THEN 0 ELSE Head(b)) + c
         IN  <<s % Limb>> \o BigAddC(IF a = <<>> THEN a ELSE Tail(a),
                                      IF b = <<>> THEN b ELSE Tail(b), s \div Limb)
BigAdd(a, b) == BigAddC(a, b, 0)

\* a - b for a >= b
RECURSIVE BigSubB(_, _, _)
BigSubB(a, b, borrow) ==
    IF a = <<>> THEN <<>>
    ELSE LET d == Head(a) - (IF b = <<>> THEN 0 ELSE Head(b)) - borrow
         IN  <<d % Limb>> \o BigSubB(Tail(a), IF b = <<>> THEN b ELSE Tail(b),
                                      IF d < 0 THEN 1 ELSE 0)
BigSub(a, b) == BigNorm(BigSubB(a, b, 0))

\* -1, 0 or 1 as a is below, equal to or above b
RECURSIVE BigCmpAt(_, _, _)
BigCmpAt(a, b, i) ==
    IF i = 0 THEN 0
    ELSE IF a[i] < b[i] THEN -1
    ELSE IF a[i] > b[i] THEN 1
    ELSE BigCmpAt(a, b, i - 1)
BigCmp(a, b) ==
    IF Len(a) < Len(b) THEN -1
    ELSE IF Len(a) > Len(b) THEN 1
    ELSE BigCmpAt(a, b, Len(a))

\* a * k + c for one digit k
RECURSIVE BigMulLimb(_, _, _)
BigMulLimb(a, k, c) ==
    IF a = <<>> THEN (IF c = 0 THEN <<>> ELSE <<c>>)
    ELSE LET p == Head(a) * k + c
         IN  <<p % Limb>> \o BigMulLimb(Tail(a), k, p \div Limb)

RECURSIVE BigMul(_, _)
BigMul(a, b) ==
    IF a = <<>> \/ b = <<>> THEN <<>>
    ELSE BigNorm(BigAdd(BigMulLimb(a, Head(b), 0), <<0>> \o BigMul(a, Tail(b))))

\* a * 2^k, and the integer part of a / 2^k
BigShl(a, k) ==
    IF a = <<>> THEN a
    ELSE [i \in 1..(k \div LimbBits) |-> 0] \o BigMulLimb(a, 2 ^ (k % LimbBits), 0)
BigShr(a, k) ==
    LET w == k \div LimbBits
        r == k % LimbBits
        n == Len(a) - w
    IN  IF n <= 0 THEN <<>>
        ELSE BigNorm([i \in 1..n |->
                        (a[i + w] \div 2 ^ r)
                        + (IF i + w < Len(a) THEN (a[i + w + 1] % 2 ^ r) * 2 ^ (LimbBits - r)
                           ELSE 0)])

\* the number of binary digits of a
RECURSIVE BitLen(_)
BitLen(n) == IF n = 0 THEN 0 ELSE 1 + BitLen(n \div 2)
BigBits(a) == IF a = <<>> THEN 0 ELSE LimbBits * (Len(a) - 1) + BitLen(a[Len(a)])

\* binary digit j (from 0) of a, and whether any digit below j is set
BigBit(a, j) ==
    IF j \div LimbBits + 1 > Len(a) THEN 0
    ELSE (a[j \div LimbBits + 1] \div 2 ^ (j % LimbBits)) % 2
BigAnyBelow(a, j) ==
    \/ \E i \in 1..Len(a) : i <= j \div LimbBits /\ a[i] # 0
    \/ /\ j \div LimbBits + 1 <= Len(a)
       /\ a[j \div LimbBits + 1] % 2 ^ (j % LimbBits) # 0

\* the greatest digit t in lo..hi with b * t <= r (b * lo <= r)
RECURSIVE QuotientDigit(_, _, _, _)
QuotientDigit(r, b, lo, hi) ==
    IF lo = hi THEN lo
    ELSE IF BigCmp(BigMulLimb(b, (lo + hi + 1) \div 2, 0), r) <= 0
    THEN QuotientDigit(r, b, (lo + hi + 1) \div 2, hi)
    ELSE QuotientDigit(r, b, lo, (lo + hi + 1) \div 2 - 1)

\* long division of a by b > 0, a digit at a time: the quotient and remainder
\* of the digits of a from digit i up
RECURSIVE BigDivFrom(_, _, _)
BigDivFrom(a, b, i) ==
    IF i > Len(a) THEN [q |-> <<>>, r |-> <<>>]
    ELSE LET up == BigDivFrom(a, b, i + 1)
             r2 == BigNorm(<<a[i]>> \o up.r)
             t == QuotientDigit(r2, b, 0, Limb - 1)
         IN  [q |-> BigNorm(<<t>> \o up.q), r |-> BigSub(r2, BigMulLimb(b, t, 0))]
BigDivMod(a, b) == BigDivFrom(a, b, 1)

\* the integer part of the square root of a > 0, by Newton's iteration from an
\* estimate x above it
RECURSIVE BigSqrtFrom(_, _)
BigSqrtStep(a, x, y) == IF BigCmp(y, x) >= 0 THEN x ELSE BigSqrtFrom(a, y)
BigSqrtFrom(a, x) == BigSqrtStep(a, x, BigShr(BigAdd(x, BigDivMod(a, x).q), 1))
BigSqrt(a) == BigSqrtFrom(a, BigShl(<<1>>, (BigBits(a) + 1) \div 2))

\* a double: (-1)^neg * m * 2^e with m = 0 or 2^52 <= m < 2^53
Double(neg, m, e) == [neg |-> neg, m |-> m, e |-> e]
Precision == 53

\* q, or q + 1 when the digits dropped from it are more than half a unit of
\* its last digit, or exactly half (`half` without `rest`) and q is odd
RoundedUp(q, half, rest) ==
    IF half /\ (rest \/ BigBit(q, 0) = 1) THEN BigAdd(q, <<1>>) ELSE q

\* the double of a rounded significand q that may have reached 2^53
Renormal(neg, q, e) ==
    IF BigBits(q) > Precision THEN Double(neg, BigShr(q, 1), e + 1) ELSE Double(neg, q, e)

\* the double nearest to (-1)^neg * m * 2^e for m > 0 of Precision + drop digits
RoundDropping(neg, m, e, more, drop) ==
    IF drop <= 0 THEN Double(neg, BigShl(m, -drop), e + drop)
    ELSE Renormal(neg, RoundedUp(BigShr(m, drop), BigBit(m, drop - 1) = 1,
                                 more \/ BigAnyBelow(m, drop - 1)),
                  e + drop)

\* the double nearest to (-1)^neg * m * 2^e, ties to even; `more` says that the
\* number rounded exceeds m * 2^e by less than one unit of m's last digit
RoundToDouble(neg, m, e, more) ==
    IF m = <<>> THEN Double(neg, <<>>, 0)
    ELSE RoundDropping(neg, m, e, more, BigBits(m) - Precision)

\* the double nearest to (-1)^neg * (n / d) * 2^e, for naturals n and d > 0:
\* n is scaled by 2^k for the quotient to have Precision + 2 digits
RoundQuotient(neg, qr, e) == RoundToDouble(neg, qr.q, e, qr.r # <<>>)
RatioScaled(neg, n, d, e, k) ==
    RoundQuotient(neg, BigDivMod(BigShl(n, IF k > 0 THEN k ELSE 0), d),
                  e - (IF k > 0 THEN k ELSE 0))
DoubleOfRatio(neg, n, d, e) ==
    IF n = <<>> THEN Double(neg, <<>>, 0)
    ELSE RatioScaled(neg, n, d, e, Precision + 2 + BigBits(d) - BigBits(n))

\* the double a decimal literal or conversion gives: nearest to k / scale
DoubleOfDec(k, scale) ==
    DoubleOfRatio(k < 0, BigOfInt(IF k < 0 THEN -k ELSE k), BigOfInt(scale), 0)

\* the double of a float of the model whose unit is 1 / scale
DoubleOf(x, scale) ==
    IF x.kind = "-0.0" THEN Double(TRUE, <<>>, 0) ELSE DoubleOfDec(x.v, scale)

\* x + y for the significands a and b of x and y at the common exponent e
SubAligned(x, y, a, b, e, c) ==
    IF c = 0 THEN Double(FALSE, <<>>, 0)
    ELSE RoundToDouble(IF c > 0 THEN x.neg ELSE y.neg,
                       IF c > 0 THEN BigSub(a, b) ELSE BigSub(b, a), e, FALSE)
AddAligned(x, y, a, b, e) ==
    IF x.neg = y.neg THEN RoundToDouble(x.neg, BigAdd(a, b), e, FALSE)
    ELSE SubAligned(x, y, a, b, e, BigCmp(a, b))
AddAt(x, y, e) == AddAligned(x, y, BigShl(x.m, x.e - e), BigShl(y.m, y.e - e), e)

\* x + y
DoubleAdd(x, y) ==
    IF x.m = <<>> /\ y.m = <<>> THEN Double(x.neg /\ y.neg, <<>>, 0)
    ELSE IF x.m = <<>> THEN y
    ELSE IF y.m = <<>> THEN x
    ELSE AddAt(x, y, IF x.e < y.e THEN x.e ELSE y.e)

\* x - y, x * y, x / y (y # 0) and the square root of x >= 0
DoubleSub(x, y) == DoubleAdd(x, Double(~y.neg, y.m, y.e))
DoubleMul(x, y) ==
    IF x.m = <<>> \/ y.m = <<>> THEN Double(x.neg # y.neg, <<>>, 0)
    ELSE RoundToDouble(x.neg # y.neg, BigMul(x.m, y.m), x.e + y.e, FALSE)
DoubleDiv(x, y) ==
    IF x.m = <<>> THEN Double(x.neg # y.neg, <<>>, 0)
    ELSE DoubleOfRatio(x.neg # y.neg, x.m, y.m, x.e - y.e)
SqrtRounded(m, s, e) == RoundToDouble(FALSE, s, e, BigMul(s, s) # m)
SqrtScaled(m, e) == SqrtRounded(m, BigSqrt(m), e)
DoubleSqrt(x) ==
    IF x.m = <<>> THEN x
    ELSE SqrtScaled(BigShl(x.m, IF x.e % 2 = 1 THEN 59 ELSE 58),
                    ((IF x.e % 2 = 1 THEN x.e - 1 ELSE x.e) - 58) \div 2)

\* round(x, ndigits) with units = 10^ndigits: the decimal nearest to the double
\* x, ties to even, as a float of the model in the unit 1 / units; n is the
\* significand of x times units
RoundScaled(x, n) ==
    Signed(x.neg,
           BigToInt(RoundedUp(IF x.e >= 0 THEN BigShl(n, x.e) ELSE BigShr(n, -x.e),
                              x.e < 0 /\ BigBit(n, -x.e - 1) = 1,
                              x.e < 0 /\ BigAnyBelow(n, -x.e - 1))))
RoundDouble(x, units) == RoundScaled(x, BigMulLimb(x.m, units, 0))

\* sum() of Python 3.11 over floats: left to right from 0
RECURSIVE DoubleSum(_)
DoubleSum(xs) ==
    IF xs = <<>> THEN Double(FALSE, <<>>, 0)
    ELSE DoubleAdd(DoubleSum(SubSeq(xs, 1, Len(xs) - 1)), xs[Len(xs)])

\* numpy's add.reduce over a float64 array (pairwise summation): below 8 values
\* left to right; up to 128 in eight interleaved partial sums, added in pairs,
\* then the values past the last full block of eight; above 128 by halves
RECURSIVE LaneSum(_, _, _)
LaneSum(xs, j, blocks) ==
    IF blocks = 1 THEN xs[j]
    ELSE DoubleAdd(LaneSum(xs, j, blocks - 1), xs[8 * (blocks - 1) + j])
RECURSIVE RestSum(_, _, _)
RestSum(acc, xs, rest) ==
    IF rest = 0 THEN acc
    ELSE DoubleAdd(RestSum(acc, xs, rest - 1), xs[Len(xs) - (Len(xs) % 8) + rest])
\* the sum of l[lo..hi] added in pairs: (l[1] + l[2]) + (l[3] + l[4]), ...
RECURSIVE PairSum(_, _, _)
PairSum(l, lo, hi) ==
    IF lo = hi THEN l[lo]
    ELSE DoubleAdd(PairSum(l, lo, (lo + hi) \div 2), PairSum(l, (lo + hi) \div 2 + 1, hi))
RECURSIVE PairwiseSum(_)
PairwiseHalves(xs, half) ==
    DoubleAdd(PairwiseSum(SubSeq(xs, 1, half)), PairwiseSum(SubSeq(xs, half + 1, Len(xs))))
PairwiseSum(xs) ==
    IF Len(xs) < 8 THEN DoubleSum(xs)
    ELSE IF Len(xs) <= 128
    THEN RestSum(PairSum([j \in 1..8 |-> LaneSum(xs, j, Len(xs) \div 8)], 1, 8), xs, Len(xs) % 8)
    ELSE PairwiseHalves(xs, (Len(xs) \div 2) - ((Len(xs) \div 2) % 8))

\* x / n for an integer n > 0
DoubleDivInt(x, n) ==
    IF x.m = <<>> THEN x ELSE DoubleOfRatio(x.neg, x.m, BigOfInt(n), x.e)

\* The roundings below are those of the doubles. Where the exact quotient is
\* not halfway between two decimals (and not zero), the double computed lies
\* on the same side of every halfway point as the exact quotient (its error is
\* below 2^-40 of the largest operand, for operands within the integers of the
\* model), so the exact quotient is rounded; halfway and at zero the doubles
\* are computed.

\* round(float(x), 2) of an LMP in thousandths: the price in hundredths
Round2(x) ==
    IF x.kind # "finite" THEN x
    ELSE IF Abs(x.v) % 10 # 5 THEN Signed(x.v < 0, NearestInt(Abs(x.v), 10))
    ELSE RoundDouble(DoubleOfDec(x.v, 1000), 100)

\* f"{x:.2f}" of a price in hundredths
Digits2(n) == IF n < 10 THEN "0" \o ToString(n) ELSE ToString(n)
Fmt2f(x) ==
    IF x.kind = "nan" THEN "nan"
    ELSE IF x.kind = "-0.0" THEN "-0.00"
    ELSE IF x.v < 0 THEN "-" \o ToString((-x.v) \div 100) \o "." \o Digits2((-x.v) % 100)
    ELSE ToString(x.v \div 100) \o "." \o Digits2(x.v % 100)

\* f"{x:.0f}" of a table value in tenths: the double of a value that is not
\* halfway between two integers lies on its side, and a value that is halfway
\* (a multiple of 0.5) is a double, which the format rounds to the even integer
Fmt0f(tenths) == ToString(NearestInt(tenths, 10))

\* what a provider call does: hand back a table (a sequence of rows, possibly
\* empty), hand back an object, or raise, `took` seconds after it was made
RowsResp(rows) == [kind |-> "rows", rows |-> rows, took |-> 0]
ObjResp(o) == [kind |-> "object", obj |-> o, took |-> 0]
RaiseResp(e) == [kind |-> "raise", exc |-> e, took |-> 0]

\* the same response of a call that blocks for d seconds before it hands back
\* or raises (the retrievals are synchronous: the clock the cache reads has
\* moved on by then)
Taking(resp, d) == [resp EXCEPT !.took = d]

\* what the provider may raise: a network failure, or a ValueError of its own
\* (a payload it could not parse)
UpstreamError == Exc("ConnectionError", "upstream request failed")
UpstreamValueError == Exc("ValueError", "could not parse upstream payload")

\* one provider call as the retrievals' record of it: the method, its date
\* argument ("latest" or a start/end range) and what came back
Call(fn, arg, resp) ==
    [fn |-> fn, arg |-> arg,
     got |-> IF resp.kind = "raise" THEN "raise"
             ELSE IF resp.kind = "rows" /\ resp.rows = <<>> THEN "empty"
             ELSE "data"]

\* a table whose columns are read in their order (df.columns)
TableResp(columns, rows) == [kind |-> "rows", rows |-> rows, took |-> 0, columns |-> columns]

\* sample tables, stamped with the interval they were fetched in
FuelMixColumns ==
    <<"Time", "Interval Start", "Interval End", "Solar", "Natural Gas", "Wind", "Batteries">>

FuelMixRow(t) ==
    [c \in {"Time", "Interval Start", "Interval End", "Solar", "Natural Gas", "Wind", "Batteries"} |->
        CASE c = "Time" -> TS(t)
          [] c = "Interval Start" -> TS(t)
          [] c = "Interval End" -> TS(t + 300)
          [] c = "Solar" -> 40009
          [] c = "Natural Gas" -> 60004
          [] c = "Wind" -> 12345
          [] c = "Batteries" -> -15009]

LoadRow(t) == [c \in {"Time", "Interval Start", "Interval End", "Load"} |->
        CASE c = "Time" -> TS(t)
          [] c = "Interval Start" -> TS(t)
          [] c = "Interval End" -> TS(t + 300)
          [] c = "Load" -> 251237]

\* a row of an LMP table: the LMP is a float, in thousandths of $/MWh
LmpRow(t, hub, lmp) == [c \in {"Interval Start", "Location", "LMP"} |->
        CASE c = "Interval Start" -> TS(t)
          [] c = "Location" -> hub
          [] c = "LMP" -> lmp]

\* CAISO_HUBS
CAISO_HUBS == <<"TH_NP15_GEN-APND", "TH_SP15_GEN-APND", "TH_ZP26_GEN-APND">>

LmpRows(t) == << LmpRow(t, CAISO_HUBS[1], Flt(31254)), LmpRow(t, CAISO_HUBS[2], Flt(28996)),
                 LmpRow(t, CAISO_HUBS[3], Flt(30101)) >>

StatusObj(t) == [status |-> "Normal", reserves |-> [type |-> "int", v |-> 2500], time |-> TS(t)]

FuelMixResponses(t) == {TableResp(FuelMixColumns, <<FuelMixRow(t)>>),
                        TableResp(FuelMixColumns, <<>>), RaiseResp(UpstreamError),
                        RaiseResp(UpstreamValueError)}
LoadResponses(t) == {RowsResp(<<LoadRow(t)>>), RowsResp(<<>>), RaiseResp(UpstreamError),
                     RaiseResp(UpstreamValueError)}
LmpResponses(t) == {RowsResp(LmpRows(t)), RowsResp(<<>>), RaiseResp(UpstreamError),
                    RaiseResp(UpstreamValueError)}
StatusResponses(t) == {ObjResp(StatusObj(t)), RaiseResp(UpstreamError)}

---------------------------------------------------------------------------
(* services/grid_data.py *)

\* str.upper() of a string of ASCII characters: every lower-case letter becomes
\* its capital, every other character stays
LowerCase == "abcdefghijklmnopqrstuvwxyz"
UpperCase == "ABCDEFGHIJKLMNOPQRSTUVWXYZ"
Capitals == [c \in {SubSeq(LowerCase, i, i) : i \in 1..26} |->
                LET i == CHOOSE j \in 1..26 : SubSeq(LowerCase, j, j) = c
                IN  SubSeq(UpperCase, i, i)]
UpperChar(c) == IF c \in DOMAIN Capitals THEN Capitals[c] ELSE c
RECURSIVE UpperFrom(_, _)
UpperFrom(s, i) == IF i > Len(s) THEN "" ELSE UpperChar(SubSeq(s, i, i)) \o UpperFrom(s, i + 1)
Upper(s) == UpperFrom(s, 1)

\* the order of str: by the code points of the first characters that differ, a
\* proper prefix first (ASCII characters of identifiers)
Ascii == " -0123456789:ABCDEFGHIJKLMNOPQRSTUVWXYZ_abcdefghijklmnopqrstuvwxyz"
Ord(c) == CHOOSE i \in 1..Len(Ascii) : SubSeq(Ascii, i, i) = c
RECURSIVE StrLess(_, _)
StrLess(a, b) ==
    IF b = "" THEN FALSE
    ELSE IF a = "" THEN TRUE
    ELSE IF SubSeq(a, 1, 1) = SubSeq(b, 1, 1) THEN StrLess(SubSeq(a, 2, Len(a)), SubSeq(b, 2, Len(b)))
    ELSE Ord(SubSeq(a, 1, 1)) < Ord(SubSeq(b, 1, 1))

\* sorted() of a set of str
Sorted(names) ==
    CHOOSE q \in [1..Cardinality(names) -> names] :
        \A i, j \in 1..Cardinality(names) : i < j => StrLess(q[i], q[j])

\* repr() of a list of str, as an f-string prints it: ['a', 'b']
RECURSIVE JoinQuoted(_)
JoinQuoted(names) ==
    IF names = <<>> THEN ""
    ELSE "'" \o Head(names) \o "'"
         \o (IF Len(names) = 1 THEN "" ELSE ", " \o JoinQuoted(Tail(names)))
ReprList(names) == "[" \o JoinQuoted(names) \o "]"

\* list(_isos.keys()), and the keys as a set
IsoKeys == <<"CAISO">>
SupportedISOs == {IsoKeys[i] : i \in DOMAIN IsoKeys}

\* _get_iso: the provider object, or ValueError with the identifier as it was
\* passed and the list of the supported ISOs (`supported`: the names the
\* message lists)
UnsupportedValueError(iso) ==
    [type |-> "ValueError",
     msg |-> "Unsupported ISO: " \o iso \o ". Supported: " \o ReprList(IsoKeys),
     supported |-> SupportedISOs]
IsoKnown(iso) == Upper(iso) \in SupportedISOs

\* cache keys (the f-strings of grid_data.py and weather.py)
FuelMixKey(iso) == "fuel_mix:" \o iso
LoadKey(iso) == "load:" \o iso
PricesKey(iso) == "prices:" \o iso
StatusKey(iso) == "status:" \o iso
HistKey(iso, days) == "hist_prices:" \o iso \o ":" \o ToString(days)
WeatherKey(iso) == "weather:" \o iso

\* ttl_seconds of each cache.set
LiveTTL == 60
HistTTL == 3600
WeatherTTL == 300

\* what a retrieval does: the store afterwards, what it returned or raised
\* (with the provider calls it made), the cache.set calls it made (each at the
\* time.time() it read), and the time when it ended
Outcome(st, out, sets, t) == [store |-> st, out |-> out, sets |-> sets, t |-> t]
SetCall(key, value, ttl, at) == [key |-> key, value |-> value, ttl |-> ttl, at |-> at]

\* [c for c in columns if c not in skipped]
RECURSIVE Without(_, _)
Without(columns, skipped) ==
    IF columns = <<>> THEN <<>>
    ELSE IF Head(columns) \in skipped THEN Without(Tail(columns), skipped)
    ELSE <<Head(columns)>> \o Without(Tail(columns), skipped)

\* the items of a dict built from the keys in their order
Items(keys, value) == [i \in 1..Len(keys) |-> <<keys[i], value[keys[i]]>>]

\* {col: int(row[col]) for col in df.columns if col not in (the time columns)}
SourcesOfRow(columns, row) ==
    Items(Without(columns, {"Time", "Interval Start", "Interval End"}),
          [c \in DOMAIN row |-> IF c \in {"Time", "Interval Start", "Interval End"} THEN 0
                                 ELSE PyInt(row[c])])

\* MUTANT of get_fuel_mix: an empty table is cached as an empty snapshot before
\* the retrieval fails
get_fuel_mix_CachesFailure(st, t, iso, resp) ==
    LET g == CacheGet(st, t, FuelMixKey(iso))
        calls == <<Call("get_fuel_mix", "latest", resp)>>
    IN  IF Truthy(g.value) THEN Outcome(g.store, Returned(g.value, <<>>), {}, t)
        ELSE IF ~IsoKnown(iso) THEN Outcome(g.store, Raised(UnsupportedValueError(iso), <<>>), {}, t)
        ELSE IF resp.kind = "raise" THEN Outcome(g.store, Raised(resp.exc, calls), {}, t + resp.took)
        ELSE IF resp.rows = <<>>
        THEN LET blank == [timestamp |-> None, sources |-> <<>>]
             IN  Outcome(CacheSet(g.store, t + resp.took, FuelMixKey(iso), blank, LiveTTL),
                         Raised(Exc("ValueError", "No fuel mix data returned from " \o iso), calls),
                         {SetCall(FuelMixKey(iso), blank, LiveTTL, t + resp.took)}, t + resp.took)
        ELSE LET row == resp.rows[1]
                 result == [timestamp |-> PyStr(row["Interval Start"]),
                            sources |-> SourcesOfRow(resp.columns, row)]
             IN  Outcome(CacheSet(g.store, t + resp.took, FuelMixKey(iso), result, LiveTTL),
                         Returned(result, calls),
                         {SetCall(FuelMixKey(iso), result, LiveTTL, t + resp.took)}, t + resp.took)

\* get_fuel_mix: a truthy cached value is served; else the ISO is resolved, the
\* provider called, an empty table refused, the first row normalized and cached
get_fuel_mix(st, t, iso, resp) ==
    LET g == CacheGet(st, t, FuelMixKey(iso))
        calls == <<Call("get_fuel_mix", "latest", resp)>>
    IN  IF Truthy(g.value) THEN Outcome(g.store, Returned(g.value, <<>>), {}, t)
        ELSE IF ~IsoKnown(iso) THEN Outcome(g.store, Raised(UnsupportedValueError(iso), <<>>), {}, t)
        ELSE IF resp.kind = "raise" THEN Outcome(g.store, Raised(resp.exc, calls), {}, t + resp.took)
        ELSE IF resp.rows = <<>>
        THEN Outcome(g.store, Raised(Exc("ValueError", "No fuel mix data returned from " \o iso), calls), {}, t + resp.took)
        ELSE LET row == resp.rows[1]
                 result == [timestamp |-> PyStr(row["Interval Start"]),
                            sources |-> SourcesOfRow(resp.columns, row)]
             IN  Outcome(CacheSet(g.store, t + resp.took, FuelMixKey(iso), result, LiveTTL),
                         Returned(result, calls),
                         {SetCall(FuelMixKey(iso), result, LiveTTL, t + resp.took)}, t + resp.took)

\* MUTANT of get_load: the snapshot is cached with the historical TTL
get_load_HistTTL(st, t, iso, resp) ==
    LET g == CacheGet(st, t, LoadKey(iso))
        calls == <<Call("get_load", "latest", resp)>>
    IN  IF Truthy(g.value) THEN Outcome(g.store, Returned(g.value, <<>>), {}, t)
        ELSE IF ~IsoKnown(iso) THEN Outcome(g.store, Raised(UnsupportedValueError(iso), <<>>), {}, t)
        ELSE IF resp.kind = "raise" THEN Outcome(g.store, Raised(resp.exc, calls), {}, t + resp.took)
        ELSE IF resp.rows = <<>>
        THEN Outcome(g.store, Raised(Exc("ValueError", "No load data returned from " \o iso), calls), {}, t + resp.took)
        ELSE LET row == resp.rows[1]
                 result == [timestamp |-> PyStr(row["Interval Start"]),
                            current_mw |-> PyInt(row["Load"])]
             IN  Outcome(CacheSet(g.store, t + resp.took, LoadKey(iso), result, HistTTL),
                         Returned(result, calls),
                         {SetCall(LoadKey(iso), result, HistTTL, t + resp.took)}, t + resp.took)

\* get_load: as get_fuel_mix, for the "Load" column
get_load(st, t, iso, resp) ==
    LET g == CacheGet(st, t, LoadKey(iso))
        calls == <<Call("get_load", "latest", resp)>>
    IN  IF Truthy(g.value) THEN Outcome(g.store, Returned(g.value, <<>>), {}, t)
        ELSE IF ~IsoKnown(iso) THEN Outcome(g.store, Raised(UnsupportedValueError(iso), <<>>), {}, t)
        ELSE IF resp.kind = "raise" THEN Outcome(g.store, Raised(resp.exc, calls), {}, t + resp.took)
        ELSE IF resp.rows = <<>>
        THEN Outcome(g.store, Raised(Exc("ValueError", "No load data returned from " \o iso), calls), {}, t + resp.took)
        ELSE LET row == resp.rows[1]
                 result == [timestamp |-> PyStr(row["Interval Start"]),
                            current_mw |-> PyInt(row["Load"])]
             IN  Outcome(CacheSet(g.store, t + resp.took, LoadKey(iso), result, LiveTTL),
                         Returned(result, calls),
                         {SetCall(LoadKey(iso), result, LiveTTL, t + resp.took)}, t + resp.took)

\* sum of the values of a dict
RECURSIVE SumValues(_, _)
SumValues(f, keys) ==
    IF keys = {} THEN 0
    ELSE LET k == CHOOSE x \in keys : TRUE
         IN  f[k] + SumValues(f, keys \ {k})

\* the by_hub loop: each Location keeps the rounded LMP of its last row
ByHub(rows) ==
    [loc \in {rows[i]["Location"] : i \in DOMAIN rows} |->
        LET last == CHOOSE i \in DOMAIN rows :
                        /\ rows[i]["Location"] = loc
                        /\ \A j \in DOMAIN rows : rows[j]["Location"] = loc => j <= i
        IN  Round2(rows[last]["LMP"])]

\* the keys of by_hub in the order the loop inserted them: the Locations by
\* their first rows
RECURSIVE HubOrder(_)
HubOrder(rows) ==
    IF rows = <<>> THEN <<>>
    ELSE LET before == HubOrder(SubSeq(rows, 1, Len(rows) - 1))
             loc == rows[Len(rows)]["Location"]
         IN  IF \E i \in DOMAIN before : before[i] = loc THEN before ELSE Append(before, loc)

\* round(sum(by_hub.values()) / len(by_hub), 2) if by_hub else 0.0
AverageLmp(hubs, by_hub) ==
    LET n == Len(hubs)
        total == SumValues([h \in DOMAIN by_hub |-> by_hub[h].v], DOMAIN by_hub)
    IN  IF n = 0 THEN Flt(0)
        ELSE IF \E h \in DOMAIN by_hub : IsNaN(by_hub[h]) THEN NaN
        ELSE IF total # 0 /\ 2 * (Abs(total) % n) # n
        THEN Signed(total < 0, NearestInt(Abs(total), n))
        ELSE RoundDouble(DoubleDivInt(DoubleSum([i \in 1..n |-> DoubleOf(by_hub[hubs[i]], 100)]),
                                      n), 100)

\* the column of a non-empty table whose lookup raises KeyError first in
\* get_prices ("" when it has them all): row["LMP"], then row["Location"],
\* then the "Interval Start" of the first row
MissingPriceColumn(rows) ==
    IF rows = <<>> THEN ""
    ELSE IF "LMP" \notin DOMAIN rows[1] THEN "LMP"
    ELSE IF "Location" \notin DOMAIN rows[1] THEN "Location"
    ELSE IF "Interval Start" \notin DOMAIN rows[1] THEN "Interval Start"
    ELSE ""

\* the dict get_prices builds from a table
PricesResult(rows) ==
    [timestamp |-> IF Len(rows) > 0 THEN PyStr(rows[1]["Interval Start"]) ELSE None,
     average_lmp |-> AverageLmp(HubOrder(rows), ByHub(rows)),
     by_hub |-> ByHub(rows),
     unit |-> "$/MWh"]

\* a retrieval's last two lines: the result is cached and returned
Stored(st, t, key, result, ttl, calls) ==
    Outcome(CacheSet(st, t, key, result, ttl), Returned(result, calls),
            {SetCall(key, result, ttl, t)}, t)

\* MUTANT of get_prices: an empty table is refused like get_fuel_mix and get_load do
get_prices_RefuseEmpty(st, t, iso, resp) ==
    LET g == CacheGet(st, t, PricesKey(iso))
        calls == <<Call("get_lmp", "latest", resp)>>
    IN  IF Truthy(g.value) THEN Outcome(g.store, Returned(g.value, <<>>), {}, t)
        ELSE IF ~IsoKnown(iso) THEN Outcome(g.store, Raised(UnsupportedValueError(iso), <<>>), {}, t)
        ELSE IF resp.kind = "raise" THEN Outcome(g.store, Raised(resp.exc, calls), {}, t + resp.took)
        ELSE IF resp.rows = <<>>
        THEN Outcome(g.store, Raised(Exc("ValueError", "No price data returned from " \o iso), calls), {}, t + resp.took)
        ELSE Stored(g.store, t + resp.took, PricesKey(iso), PricesResult(resp.rows), LiveTTL, calls)

\* get_prices: prices are in hundredths of $/MWh; an empty table is not refused:
\* it yields average_lmp 0.0, timestamp None and an empty by_hub, and is cached
get_prices(st, t, iso, resp) ==
    LET g == CacheGet(st, t, PricesKey(iso))
        calls == <<Call("get_lmp", "latest", resp)>>
    IN  IF Truthy(g.value) THEN Outcome(g.store, Returned(g.value, <<>>), {}, t)
        ELSE IF ~IsoKnown(iso) THEN Outcome(g.store, Raised(UnsupportedValueError(iso), <<>>), {}, t)
        ELSE IF resp.kind = "raise" THEN Outcome(g.store, Raised(resp.exc, calls), {}, t + resp.took)
        ELSE IF MissingPriceColumn(resp.rows) # ""
        THEN Outcome(g.store, Raised(Exc("KeyError", MissingPriceColumn(resp.rows)), calls), {},
                     t + resp.took)
        ELSE Stored(g.store, t + resp.took, PricesKey(iso), PricesResult(resp.rows), LiveTTL, calls)

\* the snapshot get_status falls back to
StatusUnavailable == [status |-> Str("unavailable"), reserves |-> None, time |-> None]

\* bool(x) of a provider attribute
AttrTruthy(x) == x # None /\ (x.type = "int" => x.v # 0)

\* MUTANT of get_status: the provider call is not guarded by try/except
get_status_Unguarded(st, t, iso, resp) ==
    LET g == CacheGet(st, t, StatusKey(iso))
        calls == <<Call("get_status", "latest", resp)>>
    IN  IF Truthy(g.value) THEN Outcome(g.store, Returned(g.value, <<>>), {}, t)
        ELSE IF ~IsoKnown(iso) THEN Outcome(g.store, Raised(UnsupportedValueError(iso), <<>>), {}, t)
        ELSE IF resp.kind = "raise" THEN Outcome(g.store, Raised(resp.exc, calls), {}, t + resp.took)
        ELSE LET result == [status |-> Str(resp.obj.status),
                            reserves |-> IF AttrTruthy(resp.obj.reserves)
                                         THEN PyStr(resp.obj.reserves) ELSE None,
                            time |-> PyStr(resp.obj.time)]
             IN  Outcome(CacheSet(g.store, t + resp.took, StatusKey(iso), result, LiveTTL),
                         Returned(result, calls),
                         {SetCall(StatusKey(iso), result, LiveTTL, t + resp.took)}, t + resp.took)

\* MUTANT of get_status: the "unavailable" snapshot is returned but not cached
get_status_NoCacheOnFailure(st, t, iso, resp) ==
    LET g == CacheGet(st, t, StatusKey(iso))
        calls == <<Call("get_status", "latest", resp)>>
    IN  IF Truthy(g.value) THEN Outcome(g.store, Returned(g.value, <<>>), {}, t)
        ELSE IF ~IsoKnown(iso) THEN Outcome(g.store, Raised(UnsupportedValueError(iso), <<>>), {}, t)
        ELSE IF resp.kind = "raise" THEN Outcome(g.store, Returned(StatusUnavailable, calls), {}, t + resp.took)
        ELSE LET result == [status |-> Str(resp.obj.status),
                            reserves |-> IF AttrTruthy(resp.obj.reserves)
                                         THEN PyStr(resp.obj.reserves) ELSE None,
                            time |-> PyStr(resp.obj.time)]
             IN  Outcome(CacheSet(g.store, t + resp.took, StatusKey(iso), result, LiveTTL),
                         Returned(result, calls),
                         {SetCall(StatusKey(iso), result, LiveTTL, t + resp.took)}, t + resp.took)

\* get_status: whatever the provider raises becomes the "unavailable" snapshot,
\* which is cached and returned like a real one
get_status(st, t, iso, resp) ==
    LET g == CacheGet(st, t, StatusKey(iso))
        calls == <<Call("get_status", "latest", resp)>>
    IN  IF Truthy(g.value) THEN Outcome(g.store, Returned(g.value, <<>>), {}, t)
        ELSE IF ~IsoKnown(iso) THEN Outcome(g.store, Raised(UnsupportedValueError(iso), <<>>), {}, t)
        ELSE LET result == IF resp.kind = "raise"
                           THEN StatusUnavailable
                           ELSE [status |-> Str(resp.obj.status),
                                 reserves |-> IF AttrTruthy(resp.obj.reserves)
                                              THEN PyStr(resp.obj.reserves) ELSE None,
                                 time |-> PyStr(resp.obj.time)]
             IN  Outcome(CacheSet(g.store, t + resp.took, StatusKey(iso), result, LiveTTL),
                         Returned(result, calls),
                         {SetCall(StatusKey(iso), result, LiveTTL, t + resp.took)}, t + resp.took)

\* a pandas DataFrame handed back as it came
DataFrame(rows) == [type |-> "DataFrame", rows |-> rows]

\* MUTANT of get_historical_prices: a cached empty frame counts as a miss
get_historical_prices_EmptyMisses(st, t, iso, days, resp) ==
    LET g == CacheGet(st, t, HistKey(iso, days))
        calls == <<Call("get_lmp", "range", resp)>>
    IN  IF g.value # None /\ g.value.rows # <<>> THEN Outcome(g.store, Returned(g.value, <<>>), {}, t)
        ELSE IF ~IsoKnown(iso) THEN Outcome(g.store, Raised(UnsupportedValueError(iso), <<>>), {}, t)
        ELSE IF resp.kind = "raise" THEN Outcome(g.store, Returned(None, calls), {}, t + resp.took)
        ELSE LET df == DataFrame(resp.rows)
             IN  Outcome(CacheSet(g.store, t + resp.took, HistKey(iso, days), df, HistTTL),
                         Returned(df, calls),
                         {SetCall(HistKey(iso, days), df, HistTTL, t + resp.took)}, t + resp.took)

\* MUTANT of get_historical_prices: a failed fetch caches an empty frame
get_historical_prices_CachesFailure(st, t, iso, days, resp) ==
    LET g == CacheGet(st, t, HistKey(iso, days))
        calls == <<Call("get_lmp", "range", resp)>>
    IN  IF g.value # None THEN Outcome(g.store, Returned(g.value, <<>>), {}, t)
        ELSE IF ~IsoKnown(iso) THEN Outcome(g.store, Raised(UnsupportedValueError(iso), <<>>), {}, t)
        ELSE LET df == IF resp.kind = "raise" THEN DataFrame(<<>>) ELSE DataFrame(resp.rows)
             IN  Outcome(CacheSet(g.store, t + resp.took, HistKey(iso, days), df, HistTTL),
                         Returned(IF resp.kind = "raise" THEN None ELSE df, calls),
                         {SetCall(HistKey(iso, days), df, HistTTL, t + resp.took)}, t + resp.took)

\* get_historical_prices: a cached frame (even an empty one) is served; a
\* provider exception yields None and caches nothing
get_historical_prices(st, t, iso, days, resp) ==
    LET g == CacheGet(st, t, HistKey(iso, days))
        calls == <<Call("get_lmp", "range", resp)>>
    IN  IF g.value # None THEN Outcome(g.store, Returned(g.value, <<>>), {}, t)
        ELSE IF ~IsoKnown(iso) THEN Outcome(g.store, Raised(UnsupportedValueError(iso), <<>>), {}, t)
        ELSE IF resp.kind = "raise" THEN Outcome(g.store, Returned(None, calls), {}, t + resp.took)
        ELSE LET df == DataFrame(resp.rows)
             IN  Outcome(CacheSet(g.store, t + resp.took, HistKey(iso, days), df, HistTTL),
                         Returned(df, calls),
                         {SetCall(HistKey(iso, days), df, HistTTL, t + resp.took)}, t + resp.took)

---------------------------------------------------------------------------
(* routes/market.py *)

REALTIME_ISOS == {"CAISO"}

\* errors.UnsupportedISOError(iso, supported): status 400, message listing sorted(supported)
UnsupportedISOError(iso, supported) ==
    [type |-> "UnsupportedISOError",
     msg |-> "Unsupported ISO: " \o iso \o ". Supported: " \o ReprList(Sorted(supported)),
     supported |-> supported, status_code |-> 400]

\* MUTANT of _validate_iso: the identifier is normalized but not checked
_validate_iso_NoCheck(iso) == Returned(Upper(iso), <<>>)

\* _validate_iso: the upper-cased identifier, or UnsupportedISOError
_validate_iso(iso) ==
    LET upper == Upper(iso)
    IN  IF upper \notin REALTIME_ISOS
        THEN Raised(UnsupportedISOError(upper, REALTIME_ISOS), <<>>)
        ELSE Returned(upper, <<>>)

\* _generate_highlights: source values are MW (integers, as get_fuel_mix makes
\* them), prices hundredths of $/MWh

\* dict.get(key, default)
DictGet(d, key, default) == IF key \in DOMAIN d THEN d[key] ELSE default

\* dict.get(key, default) of a dict given by its items
ItemGet(items, key, default) ==
    IF \E i \in DOMAIN items : items[i][1] = key
    THEN items[CHOOSE i \in DOMAIN items : items[i][1] = key][2]
    ELSE default

\* f"{n:,}" of an integer
Digits3(n) == IF n < 10 THEN "00" \o ToString(n) ELSE IF n < 100 THEN "0" \o ToString(n) ELSE ToString(n)
RECURSIVE Commas(_)
Commas(n) ==
    IF n < 0 THEN "-" \o Commas(-n)
    ELSE IF n < 1000 THEN ToString(n)
    ELSE Commas(n \div 1000) \o "," \o Digits3(n % 1000)

\* f"{x:.0f}" of a float in units
Fmt0(x) == IF x.kind = "nan" THEN "nan" ELSE IF x.kind = "-0.0" THEN "-0" ELSE ToString(x.v)

\* f"{part / total * 100:.0f}" for integers part and total > 0
Pct0f(part, total) ==
    IF 2 * ((100 * Abs(part)) % total) # total
    THEN Fmt0(Signed(part < 0, NearestInt(100 * Abs(part), total)))
    ELSE Fmt0(RoundDouble(DoubleMul(DoubleOfRatio(part < 0, BigOfInt(Abs(part)), BigOfInt(total), 0),
                                    DoubleOfDec(100, 1)), 1))

\* MUTANT of TotalGeneration: every value is summed, the negative ones too
TotalGeneration_AllValues(sources) == SumSeq([i \in DOMAIN sources |-> sources[i][2]])

\* total_gen: the sum of the strictly positive source values
TotalGeneration(sources) ==
    SumSeq([i \in DOMAIN sources |-> IF sources[i][2] > 0 THEN sources[i][2] ELSE 0])

\* the solar rule: dominant above 30%, minimal below 5%, for a positive value
SolarRule(sources, total_gen) ==
    LET solar == ItemGet(sources, "Solar", 0)
    IN  IF solar > 0 /\ total_gen > 0
        THEN IF 100 * solar > 30 * total_gen
             THEN <<"Solar dominant at " \o Pct0f(solar, total_gen) \o "% of generation ("
                    \o Commas(solar) \o " MW)">>
             ELSE IF 100 * solar < 5 * total_gen
             THEN <<"Minimal solar generation (" \o Pct0f(solar, total_gen) \o "%)">>
             ELSE <<>>
        ELSE <<>>

\* the battery rule: charging below -1000 MW, discharging above 1000 MW
BatteryRule(sources) ==
    LET batteries == ItemGet(sources, "Batteries", 0)
    IN  IF batteries < -1000
        THEN <<"Batteries charging at " \o Commas(batteries) \o " MW (absorbing excess generation)">>
        ELSE IF batteries > 1000
        THEN <<"Batteries discharging " \o Commas(batteries) \o " MW (supporting evening demand)">>
        ELSE <<>>

\* MUTANT of WindRule: the share is judged whether or not the value is positive
WindRule_NoPositiveGuard(sources, total_gen) ==
    LET wind == ItemGet(sources, "Wind", 0)
    IN  IF total_gen > 0
        THEN IF 100 * wind < 5 * total_gen
             THEN <<"Low wind generation at " \o Pct0f(wind, total_gen) \o "% ("
                    \o Commas(wind) \o " MW)">>
             ELSE IF 100 * wind > 20 * total_gen
             THEN <<"Strong wind at " \o Pct0f(wind, total_gen) \o "% of generation ("
                    \o Commas(wind) \o " MW)">>
             ELSE <<>>
        ELSE <<>>

\* the wind rule: low below 5%, strong above 20%, for a positive value
WindRule(sources, total_gen) ==
    LET wind == ItemGet(sources, "Wind", 0)
    IN  IF wind > 0 /\ total_gen > 0
        THEN IF 100 * wind < 5 * total_gen
             THEN <<"Low wind generation at " \o Pct0f(wind, total_gen) \o "% ("
                    \o Commas(wind) \o " MW)">>
             ELSE IF 100 * wind > 20 * total_gen
             THEN <<"Strong wind at " \o Pct0f(wind, total_gen) \o "% of generation ("
                    \o Commas(wind) \o " MW)">>
             ELSE <<>>
        ELSE <<>>

\* MUTANT of GasRule: the gas source is looked up under "Gas"
GasRule_KeyGas(sources, total_gen) ==
    LET gas == ItemGet(sources, "Gas", 0)
    IN  IF gas > 0 /\ total_gen > 0 /\ 100 * gas > 40 * total_gen
        THEN <<"Heavy gas reliance at " \o Pct0f(gas, total_gen) \o "% (" \o Commas(gas) \o " MW)">>
        ELSE <<>>

\* the gas rule: the source named "Natural Gas", heavy above 40%
GasRule(sources, total_gen) ==
    LET gas == ItemGet(sources, "Natural Gas", 0)
    IN  IF gas > 0 /\ total_gen > 0 /\ 100 * gas > 40 * total_gen
        THEN <<"Heavy gas reliance at " \o Pct0f(gas, total_gen) \o "% (" \o Commas(gas) \o " MW)">>
        ELSE <<>>

\* the price rule: elevated above 80 $/MWh, negative below 0 (neither NaN nor
\* -0.0 is above 80 or below 0)
PriceRule(prices) ==
    LET avg_price == DictGet(prices, "average_lmp", Flt(0))
    IN  IF avg_price.v > 8000 THEN <<"Elevated prices at $" \o Fmt2f(avg_price) \o "/MWh">>
        ELSE IF avg_price.v < 0
        THEN <<"Negative prices at $" \o Fmt2f(avg_price) \o "/MWh (oversupply)">>
        ELSE <<>>

\* _generate_highlights: nothing but "Generation data unavailable" when the
\* total is 0; else the highlights of the rules in their order, or the
\* normal-parameters line when no rule gave one
_generate_highlights(fuel_mix, load, prices) ==
    LET sources == DictGet(fuel_mix, "sources", <<>>)
        total_gen == TotalGeneration(sources)
    IN  IF total_gen = 0 THEN <<"Generation data unavailable">>
        ELSE LET highlights == SolarRule(sources, total_gen) \o BatteryRule(sources)
                               \o WindRule(sources, total_gen) \o GasRule(sources, total_gen)
                               \o PriceRule(prices)
             IN  IF highlights = <<>> THEN <<"Grid operating within normal parameters">>
                 ELSE highlights

\* max(sources.items(), key=value) if sources else ("N/A", 0): the first, in
\* the order of the dict, of the items with the greatest value
TopSource(sources) ==
    IF sources = <<>> THEN <<"N/A", 0>>
    ELSE sources[CHOOSE i \in DOMAIN sources :
                    /\ \A j \in DOMAIN sources : sources[j][2] <= sources[i][2]
                    /\ \A j \in DOMAIN sources : j < i => sources[j][2] < sources[i][2]]

\* the _summary line of market_snapshot
SnapshotSummary(iso, fuel_mix, load, prices) ==
    LET avg == DictGet(prices, "average_lmp", Flt(0))
        load_mw == DictGet(load, "current_mw", 0)
        top_source == TopSource(fuel_mix.sources)
        total_gen == TotalGeneration(fuel_mix.sources)
        top_pct == IF total_gen > 0 THEN Pct0f(top_source[2], total_gen) ELSE "0"
    IN  iso \o " grid at " \o fuel_mix.timestamp.s \o ": " \o Commas(load_mw) \o " MW load, $"
        \o Fmt2f(avg) \o "/MWh avg price, " \o top_source[1] \o " leading at " \o top_pct
        \o "% of generation"

\* the dict market_snapshot returns
SnapshotResponse(iso, fuel_mix, load, prices, status) ==
    [_summary |-> SnapshotSummary(iso, fuel_mix, load, prices),
     iso |-> iso,
     timestamp |-> fuel_mix.timestamp,
     prices |-> prices,
     load |-> load,
     generation_mix |-> fuel_mix.sources,
     grid_status |-> status,
     highlights |-> _generate_highlights(fuel_mix, load, prices)]

\* a retrieval made after others in one handler: the provider calls and cache
\* sets of the handler so far are carried along
After(prev, r) ==
    Outcome(r.store,
            [tag |-> r.out.tag, value |-> r.out.value, calls |-> prev.out.calls \o r.out.calls],
            {s \in prev.sets : \A s2 \in r.sets : s2.key # s.key} \cup r.sets,
            r.t)

\* market_snapshot, from the status retrieval on
SnapshotAfterStatus(iso, fuel_mix, load, prices, status) ==
    IF status.out.tag = "raise" THEN status
    ELSE Outcome(status.store,
                 Returned(SnapshotResponse(iso, fuel_mix.out.value, load.out.value,
                                            prices.out.value, status.out.value),
                          status.out.calls),
                 status.sets, status.t)

\* MUTANT of SnapshotAfterPrices: a failed prices retrieval is tolerated (prices None)
SnapshotAfterPrices_Tolerant(iso, fuel_mix, load, prices, rs) ==
    IF prices.out.tag = "raise"
    THEN SnapshotAfterStatus(iso, fuel_mix, load,
                             Outcome(prices.store, Returned(None, prices.out.calls),
                                     prices.sets, prices.t),
                             After(Outcome(prices.store, Returned(None, prices.out.calls),
                                           prices.sets, prices.t),
                                   get_status(prices.store, prices.t, iso, rs)))
    ELSE SnapshotAfterStatus(iso, fuel_mix, load, prices,
                             After(prices, get_status(prices.store, prices.t, iso, rs)))

\* market_snapshot, from the prices retrieval on
SnapshotAfterPrices(iso, fuel_mix, load, prices, rs) ==
    IF prices.out.tag = "raise" THEN prices
    ELSE SnapshotAfterStatus(iso, fuel_mix, load, prices,
                             After(prices, get_status(prices.store, prices.t, iso, rs)))

\* market_snapshot, from the load retrieval on
SnapshotAfterLoad(iso, fuel_mix, load, rp, rs) ==
    IF load.out.tag = "raise" THEN load
    ELSE SnapshotAfterPrices(iso, fuel_mix, load,
                             After(load, get_prices(load.store, load.t, iso, rp)), rs)

\* market_snapshot, from the fuel-mix retrieval on
SnapshotAfterFuelMix(iso, fuel_mix, rl, rp, rs) ==
    IF fuel_mix.out.tag = "raise" THEN fuel_mix
    ELSE SnapshotAfterLoad(iso, fuel_mix,
                           After(fuel_mix, get_load(fuel_mix.store, fuel_mix.t, iso, rl)), rp, rs)

\* market_snapshot: validate, then fuel mix, load, prices and status one after
\* the other, each from the time the one before it ended; the first retrieval
\* that raises ends the request
market_snapshot(st, t, iso0, rf, rl, rp, rs) ==
    LET v == _validate_iso(iso0)
    IN  IF v.tag = "raise" THEN Outcome(st, v, {}, t)
        ELSE SnapshotAfterFuelMix(v.value, get_fuel_mix(st, t, v.value, rf), rl, rp, rs)

---------------------------------------------------------------------------
(* errors.py: the exception handlers registered on the app *)

\* type(exc).__mro__, as far as the handlers look
Mro(t) ==
    CASE t = "UnsupportedISOError" -> <<"UnsupportedISOError", "GridStatusError", "Exception">>
      [] t = "ValueError" -> <<"ValueError", "Exception">>
      [] t = "ConnectionError" -> <<"ConnectionError", "OSError", "Exception">>
      [] t = "JSONDecodeError" -> <<"JSONDecodeError", "ValueError", "Exception">>
      [] t = "KeyError" -> <<"KeyError", "LookupError", "Exception">>
      [] OTHER -> <<t, "Exception">>

\* the classes register_error_handlers registers a handler for
HandledClasses == {"GridStatusError", "ValueError", "Exception"}

\* the handler an exception is dispatched to: the first class of its MRO that
\* has one
HandlerFor(e) ==
    LET mro == Mro(e.type)
        i == CHOOSE j \in DOMAIN mro :
                /\ mro[j] \in HandledClasses
                /\ \A k \in DOMAIN mro : mro[k] \in HandledClasses => j <= k
    IN  mro[i]

\* the HTTP response of a route: 200 with what the handler returned, or what the
\* exception handler makes of what it raised
Respond(out) ==
    IF out.tag = "return" THEN [status_code |-> 200, body |-> out.value]
    ELSE LET h == HandlerFor(out.value)
         IN  CASE h = "GridStatusError" ->
                    [status_code |-> out.value.status_code, body |-> [error |-> out.value.msg]]
               [] h = "ValueError" ->
                    [status_code |-> 400, body |-> [error |-> out.value.msg]]
               [] h = "Exception" ->
                    [status_code |-> 500, body |-> [error |-> "Internal server error"]]

---------------------------------------------------------------------------
(* The retrievals and the snapshot route over the shared cache *)

MaxTicks == 2
\* the clock advances explored: one second, and to just short of the time to
\* live of what the entry point caches
TickSteps(entry) == IF entry = "get_historical_prices" THEN {1, HistTTL - 1} ELSE {1, LiveTTL - 1}
\* how long a provider call blocks, in seconds
CallSeconds == {0, 2}
\* identifiers as callers pass them: the services take them as they are, the
\* routes in any case
ServiceISOs == {"CAISO", "ercot"}
RouteISOs == {"Caiso", "ercot"}
DayWindows == {1, 7}
EntryPoints == {"get_fuel_mix", "get_load", "get_prices", "get_status",
                "get_historical_prices", "market_snapshot"}

HistRows(t) == << LmpRow(t, CAISO_HUBS[1], Flt(31254)) >>
HistResponses(t) == {RowsResp(HistRows(t)), RowsResp(<<>>), RaiseResp(UpstreamError)}

\* Each behaviour exercises one entry point, from an empty cache: the cache keys
\* of the five kinds are disjoint, and exploring their calls interleaved would
\* only multiply the states.
Init ==
    /\ now = 0
    /\ ticks = 0
    /\ store = EmptyStore
    /\ lastSet = EmptyLog
    /\ res = NoRes
    /\ hs = NoHandlers
    /\ focus \in EntryPoints

\* the clock after a call that ended at time t: a call that blocked counts as
\* one of the clock advances explored
Elapse(t) ==
    /\ t > now => ticks < MaxTicks
    /\ now' = t
    /\ ticks' = IF t > now THEN ticks + 1 ELSE ticks

\* the effect of one call on the program state
Apply(op, iso, key, r) ==
    /\ focus = op
    /\ Elapse(r.t)
    /\ store' = r.store
    /\ lastSet' = Logged(lastSet, store, r.sets)
    /\ res' = [op |-> op, iso |-> iso, key |-> key, out |-> r.out]
    /\ UNCHANGED <<hs, focus>>

FuelMix(iso, resp) == Apply("get_fuel_mix", iso, FuelMixKey(iso), get_fuel_mix(store, now, iso, resp))
Load(iso, resp) == Apply("get_load", iso, LoadKey(iso), get_load(store, now, iso, resp))
Prices(iso, resp) == Apply("get_prices", iso, PricesKey(iso), get_prices(store, now, iso, resp))
Status(iso, resp) == Apply("get_status", iso, StatusKey(iso), get_status(store, now, iso, resp))
Historical(iso, days, resp) ==
    Apply("get_historical_prices", iso, HistKey(iso, days),
          get_historical_prices(store, now, iso, days, resp))
\* a request to a route: the handler runs, and its result or exception becomes
\* the HTTP response
ApplyRoute(op, iso, r) ==
    /\ focus = op
    /\ Elapse(r.t)
    /\ store' = r.store
    /\ lastSet' = Logged(lastSet, store, r.sets)
    /\ res' = [op |-> op, iso |-> iso, key |-> "", out |-> r.out, http |-> Respond(r.out)]
    /\ UNCHANGED <<hs, focus>>

Snapshot(iso, rf, rl, rp, rs) ==
    ApplyRoute("market_snapshot", iso, market_snapshot(store, now, iso, rf, rl, rp, rs))

Tick(d) ==
    /\ ticks < MaxTicks
    /\ now' = now + d
    /\ ticks' = ticks + 1
    /\ res' = NoRes
    /\ UNCHANGED <<store, lastSet, hs, focus>>

\* the provider calls of one request all block for the same d seconds
Next ==
    \/ \E iso \in ServiceISOs, resp \in FuelMixResponses(now), d \in CallSeconds :
          FuelMix(iso, Taking(resp, d))
    \/ \E iso \in ServiceISOs, resp \in LoadResponses(now), d \in CallSeconds :
          Load(iso, Taking(resp, d))
    \/ \E iso \in ServiceISOs, resp \in LmpResponses(now), d \in CallSeconds :
          Prices(iso, Taking(resp, d))
    \/ \E iso \in ServiceISOs, resp \in StatusResponses(now), d \in CallSeconds :
          Status(iso, Taking(resp, d))
    \/ \E iso \in ServiceISOs, days \in DayWindows, resp \in HistResponses(now), d \in CallSeconds :
          Historical(iso, days, Taking(resp, d))
    \/ \E iso \in RouteISOs, rf \in FuelMixResponses(now), rl \in LoadResponses(now),
          rp \in LmpResponses(now), rs \in StatusResponses(now), d \in CallSeconds :
          Snapshot(iso, Taking(rf, d), Taking(rl, d), Taking(rp, d), Taking(rs, d))
    \/ \E d \in TickSteps(focus) : Tick(d)

Spec == Init /\ [][Next]_vars

---------------------------------------------------------------------------
(* services/weather.py and the /market/explain route. explain_conditions is  *)
(* a coroutine: validation and the three grid retrievals run without a       *)
(* suspension (they are synchronous), `await get_weather` suspends it while  *)
(* the location fetches are in flight, and `await asyncio.to_thread(...)`    *)
(* while the model answers. Request handlers are tasks of one event loop, so *)
(* they interleave at those two awaits only.                                 *)

Handlers == {"h1", "h2"}
ExplainISOs == {"Caiso", "ercot"}
FocusValues == {"general"}
WeatherTickSteps == {1, WeatherTTL - 1}
WeatherCallSeconds == {2}
\* the requests a handler takes
MaxServed == 1

\* ISO_LOCATIONS
ISO_LOCATIONS ==
    [i \in {"CAISO"} |->
        << [lat |-> "38.58", lon |-> "-121.49", name |-> "Sacramento"],
           [lat |-> "34.05", lon |-> "-118.24", name |-> "Los Angeles"],
           [lat |-> "37.77", lon |-> "-122.42", name |-> "San Francisco"] >>]

\* what the HTTP GET for one location does: a payload, an httpx.HTTPError (a
\* transport failure, a timeout, or the error status raise_for_status turns
\* into one), a JSON payload without "current" (a KeyError in
\* _fetch_location), or a body that is not JSON (resp.json() raises
\* JSONDecodeError, a ValueError)
HttpOk(temp, wind, hum) == [kind |-> "ok", temperature_2m |-> temp, wind_speed_10m |-> wind,
                            relative_humidity_2m |-> hum]
HttpError == [kind |-> "http_error"]
HttpMalformed == [kind |-> "malformed"]
HttpNotJson == [kind |-> "not_json"]

LocationReplies(i) ==
    {HttpOk(700 + 50 * i, 40 + 10 * i, 55)}
    \cup (IF i = 1 THEN {HttpError, HttpMalformed, HttpNotJson}
          ELSE IF i = 2 THEN {HttpError} ELSE {HttpMalformed})
GatherReplies == {<<a, b, c>> : a \in LocationReplies(1), b \in LocationReplies(2),
                                 c \in LocationReplies(3)}

\* _fetch_location: the detail dict, None on an HTTP error, or the exception
_fetch_location(loc, reply) ==
    IF reply.kind = "http_error" THEN Returned(None, <<>>)
    ELSE IF reply.kind = "malformed" THEN Raised(Exc("KeyError", "current"), <<>>)
    ELSE IF reply.kind = "not_json"
    THEN Raised(Exc("JSONDecodeError", "Expecting value: line 1 column 1 (char 0)"), <<>>)
    ELSE Returned([location |-> loc.name,
                   temperature_f |-> Flt(reply.temperature_2m),
                   wind_speed_mph |-> Flt(reply.wind_speed_10m),
                   humidity_pct |-> Flt(reply.relative_humidity_2m)], <<>>)

\* [r for r in results if r is not None]
RECURSIVE NotNone(_)
NotNone(seq) ==
    IF seq = <<>> THEN <<>>
    ELSE IF Head(seq) = None THEN NotNone(Tail(seq))
    ELSE <<Head(seq)>> \o NotNone(Tail(seq))

RECURSIVE SumField(_, _)
SumField(seq, f) == IF seq = <<>> THEN 0 ELSE Head(seq)[f].v + SumField(Tail(seq), f)

\* round(sum(xs) / len(xs), 1) if xs else None
Average(details, f) ==
    LET n == Len(details)
        total == SumField(details, f)
    IN  IF details = <<>> THEN None
        ELSE IF total # 0 /\ 2 * (Abs(total) % n) # n
        THEN Signed(total < 0, NearestInt(Abs(total), n))
        ELSE RoundDouble(DoubleDivInt(DoubleSum([i \in 1..n |-> DoubleOf(details[i][f], 10)]), n),
                         10)

\* the GET requests asyncio.gather starts: one _fetch_location per location of
\* the ISO, in the order of ISO_LOCATIONS
FetchCalls(locations, replies) ==
    [i \in DOMAIN locations |->
        [fn |-> "GET forecast", arg |-> locations[i].name,
         got |-> IF replies = <<>> THEN "pending" ELSE replies[i].kind]]

\* get_weather up to its await: a truthy cached value or the no-locations
\* dict is returned at once ("done"); otherwise the fetches are issued ("await")
get_weather_lookup(st, t, iso) ==
    LET g == CacheGet(st, t, WeatherKey(iso))
    IN  IF Truthy(g.value)
        THEN [pc |-> "done", r |-> Outcome(g.store, Returned(g.value, <<>>), {}, t)]
        ELSE IF Upper(iso) \notin DOMAIN ISO_LOCATIONS
        THEN [pc |-> "done",
              r |-> Outcome(g.store,
                            Returned([error |-> "No weather locations configured for " \o iso], <<>>),
                            {}, t)]
        ELSE [pc |-> "await",
              r |-> Outcome(g.store,
                            Returned(None, FetchCalls(ISO_LOCATIONS[Upper(iso)], <<>>)), {}, t)]

\* the fetches whose exception may be the one asyncio.gather hands to
\* get_weather: any of those that raise, since the first to raise in time is
\* propagated and the fetches complete in no fixed order (0: none raises)
Raising(iso, replies) ==
    LET locations == ISO_LOCATIONS[Upper(iso)]
        raising == {i \in DOMAIN locations :
                       _fetch_location(locations[i], replies[i]).tag = "raise"}
    IN  IF raising = {} THEN {0} ELSE raising

\* get_weather from its await on, at time t: an exception of a fetch other
\* than an HTTP error ends the coroutine before the cache.set (`first` is the
\* fetch that raised first); otherwise the gathered replies are averaged, and
\* the result is cached for 300 s and returned
get_weather_resume(st, t, iso, replies, first) ==
    LET locations == ISO_LOCATIONS[Upper(iso)]
        results == [i \in DOMAIN locations |-> _fetch_location(locations[i], replies[i])]
        calls == FetchCalls(locations, replies)
    IN  IF first # 0
        THEN Outcome(st, Raised(results[first].value, calls), {}, t)
        ELSE LET details == NotNone([i \in DOMAIN results |-> results[i].value])
                 result == [iso |-> iso,
                            average_temperature_f |-> Average(details, "temperature_f"),
                            average_wind_speed_mph |-> Average(details, "wind_speed_mph"),
                            locations |-> details]
             IN  Outcome(CacheSet(st, t, WeatherKey(iso), result, WeatherTTL),
                         Returned(result, calls),
                         {SetCall(WeatherKey(iso), result, WeatherTTL, t)}, t)

\* what `complete` does: hand back the text of the model, or raise: ValueError
\* when the model gave no content, or whatever the SDK raises
AiText(s) == [kind |-> "text", text |-> s]
AiRaise(e) == [kind |-> "raise", exc |-> e]
EmptyCompletion == Exc("ValueError", "Model returned empty response (no content)")
ApiError == Exc("APIConnectionError", "Connection error.")

\* the three backquotes that open and close a code fence. A TLA+ string cannot
\* hold a backquote: the sample texts are written with a tilde in its place.
Fence == "~~~"

\* str.startswith
StartsWith(s, p) == Len(s) >= Len(p) /\ SubSeq(s, 1, Len(p)) = p

\* str.strip(): the white space at both ends is dropped
Whitespace == {" ", "\n", "\t", "\r"}
RECURSIVE LStrip(_)
LStrip(s) == IF s # "" /\ SubSeq(s, 1, 1) \in Whitespace THEN LStrip(SubSeq(s, 2, Len(s))) ELSE s
RECURSIVE RStrip(_)
RStrip(s) ==
    IF s # "" /\ SubSeq(s, Len(s), Len(s)) \in Whitespace THEN RStrip(SubSeq(s, 1, Len(s) - 1))
    ELSE s
Strip(s) == RStrip(LStrip(s))

\* the places where p occurs in s
Occurrences(s, p) == {i \in 1..(Len(s) - Len(p) + 1) : SubSeq(s, i, i + Len(p) - 1) = p}

\* s.split(sep, 1): one part when sep does not occur, else the parts before
\* and after its first occurrence
SplitOnce(s, sep) ==
    IF Occurrences(s, sep) = {} THEN <<s>>
    ELSE LET i == CHOOSE j \in Occurrences(s, sep) : \A k \in Occurrences(s, sep) : j <= k
         IN  <<SubSeq(s, 1, i - 1), SubSeq(s, i + Len(sep), Len(s))>>

\* s.rsplit(sep, 1): the same, at the last occurrence
RSplitOnce(s, sep) ==
    IF Occurrences(s, sep) = {} THEN <<s>>
    ELSE LET i == CHOOSE j \in Occurrences(s, sep) : \A k \in Occurrences(s, sep) : k <= j
         IN  <<SubSeq(s, 1, i - 1), SubSeq(s, i + Len(sep), Len(s))>>

\* texts a model may answer with: the object asked for (here with four
\* factors), the same in a code fence, an object with neither key, prose, a
\* fence without a line break, a JSON array, and an object whose factor has no
\* "factor"
JsonFull ==
    "{\"explanation\": \"Solar output is high.\", \"contributing_factors\": ["
    \o "{\"factor\": \"solar\", \"impact\": \"high\", \"detail\": \"midday peak\"}, "
    \o "{\"factor\": \"load\", \"impact\": \"medium\", \"detail\": \"mild\"}, "
    \o "{\"factor\": \"gas\", \"impact\": \"low\", \"detail\": \"backed down\"}, "
    \o "{\"factor\": \"wind\", \"impact\": \"mitigating\", \"detail\": \"calm\"}]}"
JsonOne ==
    "{\"explanation\": \"Prices are low.\", \"contributing_factors\": ["
    \o "{\"factor\": \"oversupply\", \"impact\": \"high\", \"detail\": \"solar\"}]}"
JsonNoFactorName == "{\"contributing_factors\": [{\"impact\": \"high\"}]}"
AiTexts ==
    {" " \o JsonFull \o "\n",
     Fence \o "json\n" \o JsonOne \o "\n" \o Fence \o "\n",
     "{}",
     "Prices are high because load is high.",
     Fence \o JsonOne \o Fence,
     "[1, 2]",
     JsonNoFactorName}
Completions == {AiText(s) : s \in AiTexts} \cup {AiRaise(EmptyCompletion), AiRaise(ApiError)}

\* json.loads of the texts above: a dict (a record), a list (a sequence), or
\* JSONDecodeError for a text that is not JSON
JsonLoads(text) ==
    CASE text = JsonFull ->
           Returned([type |-> "dict",
                     v |-> [explanation |-> "Solar output is high.",
                            contributing_factors |->
                               << [factor |-> "solar", impact |-> "high", detail |-> "midday peak"],
                                  [factor |-> "load", impact |-> "medium", detail |-> "mild"],
                                  [factor |-> "gas", impact |-> "low", detail |-> "backed down"],
                                  [factor |-> "wind", impact |-> "mitigating", detail |-> "calm"] >>]],
                    <<>>)
      [] text = JsonOne ->
           Returned([type |-> "dict",
                     v |-> [explanation |-> "Prices are low.",
                            contributing_factors |->
                               << [factor |-> "oversupply", impact |-> "high",
                                   detail |-> "solar"] >>]],
                    <<>>)
      [] text = JsonNoFactorName ->
           Returned([type |-> "dict", v |-> [contributing_factors |-> << [impact |-> "high"] >>]],
                    <<>>)
      [] text = "{}" -> Returned([type |-> "dict", v |-> [k \in {} |-> ""]], <<>>)
      [] text = "[1, 2]" -> Returned([type |-> "list", v |-> <<1, 2>>], <<>>)
      [] OTHER -> Raised(Exc("JSONDecodeError", "Expecting value"), <<>>)

\* the dict the except clause of explain_conditions puts in place of the
\* parsed reply
Fallback(ai_response) ==
    [type |-> "dict", v |-> [explanation |-> Strip(ai_response), contributing_factors |-> <<>>]]

\* json.loads(clean) inside the try block
LoadsOrFallback(clean, ai_response) ==
    IF JsonLoads(clean).tag = "raise" THEN Fallback(ai_response) ELSE JsonLoads(clean).value

\* the fenced text between its first line break and its last fence; without a
\* line break split("\n", 1)[1] is an IndexError, which the except clause takes
Unfenced(clean, ai_response) ==
    IF Len(SplitOnce(clean, "\n")) < 2 THEN Fallback(ai_response)
    ELSE LoadsOrFallback(Strip(RSplitOnce(SplitOnce(clean, "\n")[2], Fence)[1]), ai_response)

\* the try block: the reply is stripped, taken out of its code fence when it
\* starts with one, and parsed
ParseReply(ai_response) ==
    IF StartsWith(Strip(ai_response), Fence) THEN Unfenced(Strip(ai_response), ai_response)
    ELSE LoadsOrFallback(Strip(ai_response), ai_response)

\* sep.join(names)
RECURSIVE Join(_, _)
Join(names, sep) ==
    IF names = <<>> THEN ""
    ELSE IF Len(names) = 1 THEN names[1]
    ELSE names[1] \o sep \o Join(Tail(names), sep)

\* factors[:3]
FirstThree(factors) == SubSeq(factors, 1, IF Len(factors) < 3 THEN Len(factors) ELSE 3)

\* the data_context f-string, by the values it prints
DataContext(iso, fuel_mix, load, prices, weather) ==
    [iso |-> iso,
     timestamp |-> fuel_mix.timestamp,
     sources |-> fuel_mix.sources,
     load |-> Commas(load.current_mw),
     average_lmp |-> prices.average_lmp,
     by_hub |-> prices.by_hub,
     average_temp |-> DictGet(weather, "average_temperature_f", None),
     average_wind |-> DictGet(weather, "average_wind_speed_mph", None),
     locations |-> DictGet(weather, "locations", <<>>)]

\* the call of `complete` in a worker thread: the system prompt (which varies
\* with the focus only) and the data context, max_tokens=800
CompleteCall(loc, got) ==
    [fn |-> "complete", arg |-> "max_tokens=800", got |-> got,
     messages |-> << [role |-> "system", focus |-> loc.focus],
                     [role |-> "user",
                      content |-> DataContext(loc.iso, loc.fuel_mix, loc.load, loc.prices,
                                              loc.weather)] >>]

\* the dict explain_conditions returns, from the parsed reply on (the _summary
\* f-string by the slots it fills); a reply that is not a dict has no .get, and
\* one of the first three factors may lack "factor"
ExplainResponse(loc, parsed, calls) ==
    IF parsed.type # "dict"
    THEN Raised(Exc("AttributeError", "'list' object has no attribute 'get'"), calls)
    ELSE IF \E i \in DOMAIN FirstThree(DictGet(parsed.v, "contributing_factors", <<>>)) :
               "factor" \notin DOMAIN DictGet(parsed.v, "contributing_factors", <<>>)[i]
    THEN Raised(Exc("KeyError", "factor"), calls)
    ELSE LET explanation_text == DictGet(parsed.v, "explanation", "")
             factors == DictGet(parsed.v, "contributing_factors", <<>>)
             top_factors == IF factors # <<>>
                            THEN Join([i \in DOMAIN FirstThree(factors) |-> factors[i].factor], ", ")
                            ELSE "unknown"
         IN  Returned([_summary |-> [template |-> "grid analysis", iso |-> loc.iso,
                                     focus |-> loc.focus, top_factors |-> top_factors],
                       iso |-> loc.iso,
                       timestamp |-> loc.fuel_mix.timestamp,
                       focus |-> loc.focus,
                       explanation |-> explanation_text,
                       contributing_factors |-> factors,
                       data_sources |-> <<"gridstatus", "openmeteo">>],
                      calls)

\* the calls of a handler once the last of them, which was pending, has ended
Answered(calls, got) == [calls EXCEPT ![Len(calls)].got = got]

\* explain_conditions from the answer of `complete` on (`calls`: the calls of
\* the handler, the last being the pending call of `complete`)
explain_finish(loc, calls, ai) ==
    IF ai.kind = "raise" THEN Raised(ai.exc, Answered(calls, "raise"))
    ELSE ExplainResponse(loc, ParseReply(ai.text), Answered(calls, "data"))

\* a handler between requests, and the local variables of one in
\* explain_conditions: where it is suspended (`pc`), the identifier it was
\* sent, its locals, and the provider calls it has made; `served` counts the
\* requests it has taken
NoLocals == [iso |-> "", focus |-> "", fuel_mix |-> None, load |-> None, prices |-> None,
             weather |-> None]
Idle(n) == [pc |-> "idle", sent |-> "", loc |-> NoLocals, calls |-> <<>>, served |-> n]

\* explain_conditions once get_weather has returned (`weather`: the outcome of
\* the request so far): the handler goes on to the call of `complete`
ExplainAfterWeather(loc, weather) ==
    IF weather.out.tag = "raise" THEN [pc |-> "done", r |-> weather, loc |-> NoLocals]
    ELSE [pc |-> "llm",
          r |-> weather,
          loc |-> [loc EXCEPT !.weather = weather.out.value]]

\* explain_conditions at `await get_weather(iso)`: get_weather runs up to its
\* own await, or to its end when it needs no fetch
ExplainAtWeather(loc, prices, w) ==
    IF w.pc = "done" THEN ExplainAfterWeather(loc, After(prices, w.r))
    ELSE [pc |-> "weather", r |-> After(prices, w.r), loc |-> loc]

\* explain_conditions, from the prices retrieval on
ExplainAfterPrices(iso, topic, fuel_mix, load, prices) ==
    IF prices.out.tag = "raise" THEN [pc |-> "done", r |-> prices, loc |-> NoLocals]
    ELSE ExplainAtWeather([iso |-> iso, focus |-> topic, fuel_mix |-> fuel_mix, load |-> load,
                           prices |-> prices.out.value, weather |-> None],
                          prices, get_weather_lookup(prices.store, prices.t, iso))

\* explain_conditions, from the load retrieval on
ExplainAfterLoad(iso, topic, fuel_mix, load, rp) ==
    IF load.out.tag = "raise" THEN [pc |-> "done", r |-> load, loc |-> NoLocals]
    ELSE ExplainAfterPrices(iso, topic, fuel_mix, load.out.value,
                            After(load, get_prices(load.store, load.t, iso, rp)))

\* explain_conditions, from the fuel-mix retrieval on
ExplainAfterFuelMix(iso, topic, fuel_mix, rl, rp) ==
    IF fuel_mix.out.tag = "raise" THEN [pc |-> "done", r |-> fuel_mix, loc |-> NoLocals]
    ELSE ExplainAfterLoad(iso, topic, fuel_mix.out.value,
                          After(fuel_mix, get_load(fuel_mix.store, fuel_mix.t, iso, rl)), rp)

\* explain_conditions up to its first suspension: validate, then fuel mix, load
\* and prices one after the other, each from the time the one before it ended,
\* then get_weather up to its await. "done": the request ended (an exception);
\* "weather": suspended in get_weather; "llm": suspended on `complete`
explain_conditions(st, t, iso0, topic, rf, rl, rp) ==
    LET v == _validate_iso(iso0)
    IN  IF v.tag = "raise" THEN [pc |-> "done", r |-> Outcome(st, v, {}, t), loc |-> NoLocals]
        ELSE ExplainAfterFuelMix(v.value, topic, get_fuel_mix(st, t, v.value, rf), rl, rp)

\* the calls of a handler but its location fetches
IsNotFetch(c) == c.fn # "GET forecast"
GridCalls(calls) == SelectSeq(calls, IsNotFetch)

InitWeather ==
    /\ now = 0
    /\ ticks = 0
    /\ store = EmptyStore
    /\ lastSet = EmptyLog
    /\ res = NoRes
    /\ hs = [h \in Handlers |-> Idle(0)]
    /\ focus = "explain_conditions"

\* handler h, sent the identifier `sent` in its request number `served`, has run explain_conditions up to s:
\* its request has ended with an HTTP response, or it is suspended, in
\* get_weather with its fetches pending or on the pending call of `complete`
Proceed(h, sent, served, s) ==
    /\ store' = s.r.store
    /\ lastSet' = Logged(lastSet, store, s.r.sets)
    /\ IF s.pc = "done"
       THEN /\ hs' = [hs EXCEPT ![h] = Idle(served)]
            /\ res' = [op |-> "explain_conditions", h |-> h, iso |-> sent, key |-> "",
                       out |-> s.r.out, http |-> Respond(s.r.out)]
       ELSE /\ hs' = [hs EXCEPT ![h] =
                        [pc |-> s.pc, sent |-> sent, loc |-> s.loc, served |-> served,
                         calls |-> IF s.pc = "llm"
                                   THEN s.r.out.calls \o <<CompleteCall(s.loc, "pending")>>
                                   ELSE s.r.out.calls]]
            /\ res' = [op |-> "await", h |-> h, iso |-> sent, at |-> s.pc]
    /\ UNCHANGED focus

\* a request for /market/explain reaches handler h, which runs it up to its
\* first suspension
ExplainCall(h, iso0, topic, rf, rl, rp) ==
    /\ hs[h].pc = "idle"
    /\ hs[h].served < MaxServed
    /\ Elapse(explain_conditions(store, now, iso0, topic, rf, rl, rp).r.t)
    /\ Proceed(h, iso0, hs[h].served + 1, explain_conditions(store, now, iso0, topic, rf, rl, rp))

\* the fetches of handler h have completed: its get_weather runs to its end
\* and explain_conditions goes on to the call of `complete`
WeatherDone(h, replies, first) ==
    /\ hs[h].pc = "weather"
    /\ first \in Raising(hs[h].loc.iso, replies)
    /\ Proceed(h, hs[h].sent, hs[h].served,
               ExplainAfterWeather(hs[h].loc,
                   After(Outcome(store, Returned(None, GridCalls(hs[h].calls)), {}, now),
                         get_weather_resume(store, now, hs[h].loc.iso, replies, first))))
    /\ UNCHANGED <<now, ticks>>

\* `complete` has answered handler h: explain_conditions runs to its end
ExplainFinish(h, ai) ==
    /\ hs[h].pc = "llm"
    /\ hs' = [hs EXCEPT ![h] = Idle(hs[h].served)]
    /\ res' = [op |-> "explain_conditions", h |-> h, iso |-> hs[h].sent, key |-> "",
               out |-> explain_finish(hs[h].loc, hs[h].calls, ai),
               http |-> Respond(explain_finish(hs[h].loc, hs[h].calls, ai))]
    /\ UNCHANGED <<now, ticks, store, lastSet, focus>>

WeatherTick(d) ==
    /\ ticks < MaxTicks
    /\ now' = now + d
    /\ ticks' = ticks + 1
    /\ res' = NoRes
    /\ UNCHANGED <<store, lastSet, hs, focus>>

\* what the three provider calls of one request do, at time t: all hand back
\* data, the fuel-mix table is empty, or one of them raises (the retrievals
\* after it are not reached)
ExplainInputs(t) ==
    {<<TableResp(FuelMixColumns, <<FuelMixRow(t)>>), RowsResp(<<LoadRow(t)>>), RowsResp(LmpRows(t))>>,
     <<TableResp(FuelMixColumns, <<>>), RowsResp(<<LoadRow(t)>>), RowsResp(LmpRows(t))>>,
     <<RaiseResp(UpstreamError), RowsResp(<<LoadRow(t)>>), RowsResp(LmpRows(t))>>,
     <<TableResp(FuelMixColumns, <<FuelMixRow(t)>>), RowsResp(<<>>), RowsResp(LmpRows(t))>>,
     <<TableResp(FuelMixColumns, <<FuelMixRow(t)>>), RowsResp(<<LoadRow(t)>>),
       RaiseResp(UpstreamValueError)>>}

\* the provider calls of one request all block for the same d seconds
NextWeather ==
    \/ \E h \in Handlers, iso \in ExplainISOs, topic \in FocusValues, in \in ExplainInputs(now),
          d \in WeatherCallSeconds :
          ExplainCall(h, iso, topic, Taking(in[1], d), Taking(in[2], d), Taking(in[3], d))
    \/ \E h \in Handlers, replies \in GatherReplies, first \in 0..3 :
          WeatherDone(h, replies, first)
    \/ \E h \in Handlers, ai \in Completions : ExplainFinish(h, ai)
    \/ \E d \in WeatherTickSteps : WeatherTick(d)

SpecWeather == InitWeather /\ [][NextWeather]_vars

\* the calls made for the requests in flight and for the request that has
\* just ended
RequestCalls ==
    {hs[h].calls : h \in DOMAIN hs}
    \cup (IF res.op = "explain_conditions" THEN {res.out.calls} ELSE {})

\* how many of the calls went to the provider method fn
CallsMade(calls, fn) == Cardinality({i \in DOMAIN calls : calls[i].fn = fn})

\* the provider method each retrieval of explain_conditions calls
ProviderMethods == {"get_fuel_mix", "get_load", "get_lmp", "GET forecast"}

\* every entry of the cache is the (expiry, value) pair of the last set on its key
EntriesAreLastSets ==
    \A k \in DOMAIN store :
        /\ k \in DOMAIN lastSet
        /\ store[k] = <<lastSet[k].at + lastSet[k].ttl, lastSet[k].value>>

\* C9 as stated: under interleaved handlers every entry of the cache is exactly
\* the (expiry, value) pair written by the last set on its key, and a handler
\* makes at most one provider call per retrieval. Violated: a get_weather that
\* misses sends one GET per load centre, three for CAISO.
C9_OneCallPerRetrieval ==
    /\ EntriesAreLastSets
    /\ \A calls \in RequestCalls : \A fn \in ProviderMethods : CallsMade(calls, fn) <= 1

\* C9, amended: under interleaved handlers every entry of the cache is exactly
\* the (expiry, value) pair written by the last set on its key; per request a
\* handler makes at most one provider call for each of the fuel-mix, load and
\* prices retrievals, and for the weather retrieval at most one GET for each
\* load centre configured for the ISO (two handlers that miss on the same key
\* may both fetch).
C9_LastWriteWins ==
    /\ EntriesAreLastSets
    /\ \A calls \in RequestCalls :
          /\ \A fn \in ProviderMethods \ {"GET forecast"} : CallsMade(calls, fn) <= 1
          /\ CallsMade(calls, "GET forecast") <= Len(ISO_LOCATIONS["CAISO"])
          /\ \A i, j \in DOMAIN calls :
                (calls[i].fn = "GET forecast" /\ calls[j].fn = "GET forecast"
                 /\ calls[i].arg = calls[j].arg) => i = j

\* C9 witness: two handlers missed on the weather key and both fetched; the
\* one whose fetches completed last wrote its result over the live entry the
\* other had written while the first was waiting
C9_Witness ==
    /\ now > 0
    /\ WeatherKey("CAISO") \in DOMAIN store
    /\ lastSet[WeatherKey("CAISO")].at = now
    /\ lastSet[WeatherKey("CAISO")].over = "live"
    /\ \E h \in DOMAIN hs :
          /\ hs[h].pc = "llm"
          /\ res = [op |-> "await", h |-> h, iso |-> "Caiso", at |-> "llm"]
          /\ CallsMade(hs[h].calls, "GET forecast") = 3
          /\ hs[h].loc.weather.locations # <<>>
          /\ store[WeatherKey("CAISO")] = <<now + 300, hs[h].loc.weather>>

---------------------------------------------------------------------------
(* Properties of the retrievals and of the snapshot route *)

RetrievalOps == {"get_fuel_mix", "get_load", "get_prices", "get_status", "get_historical_prices"}

\* the step just taken was a call of `op` (it began at `now` and ended at now')
Called(op) == res'.op = op

\* the provider calls of the step just taken
Calls == res'.out.calls

\* the step fetched from the provider and got `got` ("data", "empty", "raise")
Fetched(got) == Calls # <<>> /\ Calls[1].got = got

\* C3: a retrieval of any of the five kinds that finds a live entry under its key
\* returns exactly the cached value, calls no provider method and leaves the
\* whole store (every key's value and expiry) as it was.
C3_HitReturnsCached ==
    [][\A op \in RetrievalOps :
        (Called(op) /\ res'.key \in DOMAIN store /\ now < store[res'.key][1]) =>
            /\ res'.out = Returned(store[res'.key][2], <<>>)
            /\ store' = store]_vars

\* C3 witness: a historical retrieval served, at a later time, the frame an
\* earlier retrieval had stored
C3_Witness ==
    /\ res.op = "get_historical_prices"
    /\ res.out.calls = <<>>
    /\ res.key \in DOMAIN store
    /\ res.out.value = store[res.key][2]
    /\ res.key \in DOMAIN lastSet
    /\ lastSet[res.key].at < now

\* the TTL the claim gives each kind
ClaimedTTL(op) == IF op = "get_historical_prices" THEN 3600 ELSE 60

\* C4: a snapshot stored at time T is what every retrieval of the same kind and
\* ISO (and days window) returns, without a provider call, before T+60
\* (T+3600 for a historical series); a retrieval at or after that instant calls
\* the provider; and whatever a retrieval serves from the cache was stored less
\* than the kind's TTL ago.
C4_ServedUntilTTL ==
    [][\A op \in RetrievalOps :
        /\ (Called(op) /\ res'.key \in DOMAIN lastSet) =>
              LET s == lastSet[res'.key]
              IN  /\ now < s.at + ClaimedTTL(op) => res'.out = Returned(s.value, <<>>)
                  /\ now >= s.at + ClaimedTTL(op) => Calls # <<>>
        /\ (Called(op) /\ res'.out.tag = "return" /\ Calls = <<>>) =>
              /\ res'.key \in DOMAIN lastSet
              /\ now - lastSet[res'.key].at < ClaimedTTL(op)
              /\ res'.out.value = lastSet[res'.key].value]_vars

\* C4 witness: a historical series stored at time 0 had expired exactly at
\* 3600, where a retrieval fetched and stored it again
C4_Witness ==
    /\ res.op = "get_historical_prices"
    /\ now = 3600
    /\ res.out.calls # <<>>
    /\ res.key \in DOMAIN lastSet
    /\ lastSet[res.key].at = now
    /\ lastSet[res.key].over = "expired"

\* C5 as claimed: an empty provider result makes each of get_fuel_mix, get_load
\* and get_prices fail with the data-unavailable error (a ValueError).
C5_EmptyAlwaysFails ==
    [][\A op \in {"get_fuel_mix", "get_load", "get_prices"} :
        (Called(op) /\ Fetched("empty")) =>
            /\ res'.out.tag = "raise"
            /\ res'.out.value.type = "ValueError"]_vars

\* C5 amended: on an empty provider result get_fuel_mix and get_load fail with a
\* ValueError and cache nothing; get_prices does not fail: it returns, and
\* caches for 60 s, a snapshot with average_lmp 0.0, an empty by_hub and
\* timestamp None.
C5_EmptyFailsExceptPrices ==
    [][/\ \A op \in {"get_fuel_mix", "get_load"} :
            (Called(op) /\ Fetched("empty")) =>
                /\ res'.out.tag = "raise"
                /\ res'.out.value.type = "ValueError"
                /\ res'.key \notin DOMAIN store'
                /\ lastSet' = lastSet
       /\ (Called("get_prices") /\ Fetched("empty")) =>
                /\ res'.out.tag = "return"
                /\ res'.out.value.average_lmp = Flt(0)
                /\ DOMAIN res'.out.value.by_hub = {}
                /\ res'.out.value.timestamp = None
                /\ res'.key \in DOMAIN store'
                /\ store'[res'.key] = <<now' + 60, res'.out.value>>]_vars

\* C5 witness: get_prices returned and cached the snapshot of an empty table
C5_Witness ==
    /\ res.op = "get_prices"
    /\ res.out.calls # <<>>
    /\ res.out.calls[1].got = "empty"
    /\ res.out.tag = "return"
    /\ res.out.value.average_lmp = Flt(0)
    /\ res.key \in DOMAIN store
    /\ store[res.key][2] = res.out.value

\* C6: a call with an ISO outside the supported set fails with the
\* unsupported-ISO error naming the valid values (UnsupportedISOError from the
\* route, ValueError from a retrieval), makes no provider call and leaves the
\* cache as it was.
C6_UnsupportedRejected ==
    [][\A op \in RetrievalOps \cup {"market_snapshot"} :
        (Called(op) /\ Upper(res'.iso) # "CAISO") =>
            /\ res'.out.tag = "raise"
            /\ res'.out.value.type =
                  (IF op = "market_snapshot" THEN "UnsupportedISOError" ELSE "ValueError")
            /\ res'.out.value.msg =
                  "Unsupported ISO: "
                  \o (IF op = "market_snapshot" THEN Upper(res'.iso) ELSE res'.iso)
                  \o ". Supported: ['CAISO']"
            /\ res'.out.value.supported = {"CAISO"}
            /\ Calls = <<>>
            /\ store' = store
            /\ lastSet' = lastSet]_vars

\* C6 witness: a snapshot request for "ercot" was refused while the cache held
\* the entries of an earlier request
C6_Witness ==
    /\ res.op = "market_snapshot"
    /\ res.iso = "ercot"
    /\ res.out.tag = "raise"
    /\ res.out.value.type = "UnsupportedISOError"
    /\ DOMAIN store # {}

\* C7: when the provider's status call raises, get_status returns the
\* placeholder {status: "unavailable", reserves: None, time: None}.
C7_StatusDegrades ==
    [][(Called("get_status") /\ Fetched("raise")) =>
            res'.out = Returned([status |-> Str("unavailable"), reserves |-> None, time |-> None],
                                Calls)]_vars

\* C7 witness: the status call raised and get_status returned the placeholder
C7_Witness ==
    /\ res.op = "get_status"
    /\ res.out.calls # <<>>
    /\ res.out.calls[1].got = "raise"
    /\ res.out.tag = "return"
    /\ res.out.value.status = Str("unavailable")

\* C8: when the provider raises, get_historical_prices returns None and sets
\* nothing (its key is left without an entry); and a retrieval that finds no
\* entry under its key calls the provider.
C8_HistFailureAbsent ==
    [][Called("get_historical_prices") =>
        /\ Fetched("raise") =>
              /\ res'.out = Returned(None, Calls)
              /\ store' = Del(store, res'.key)
              /\ lastSet' = lastSet
        /\ (res'.key \notin DOMAIN store /\ Upper(res'.iso) = "CAISO") => Calls # <<>>]_vars

\* C8 witness: an expired series was dropped, the fetch that should have
\* replaced it failed, and the retrieval returned None
C8_Witness ==
    /\ res.op = "get_historical_prices"
    /\ res.out.calls # <<>>
    /\ res.out.calls[1].got = "raise"
    /\ res.out.value = None
    /\ res.key \in DOMAIN lastSet
    /\ res.key \notin DOMAIN store

\* a fetch of the request failed: the provider raised, or handed fuel mix or
\* load an empty table
FailedFetch(c) ==
    \/ c.fn \in {"get_fuel_mix", "get_load", "get_lmp"} /\ c.got = "raise"
    \/ c.fn \in {"get_fuel_mix", "get_load"} /\ c.got = "empty"

\* C10: a market-snapshot request fails when its fuel-mix, load or prices
\* retrieval fails; when none of the three fails (and the ISO is supported) it
\* succeeds, and if the status call raised it carries
\* grid_status.status = "unavailable".
C10_SnapshotFailures ==
    [][Called("market_snapshot") =>
        /\ (\E i \in DOMAIN Calls : FailedFetch(Calls[i])) => res'.out.tag = "raise"
        /\ (Upper(res'.iso) = "CAISO" /\ \A i \in DOMAIN Calls : ~FailedFetch(Calls[i])) =>
              /\ res'.out.tag = "return"
              /\ (\E i \in DOMAIN Calls : Calls[i].fn = "get_status" /\ Calls[i].got = "raise") =>
                    res'.out.value.grid_status.status = Str("unavailable")]_vars

\* C10 witness: fuel mix, load and prices were fetched, the status call raised,
\* and the request returned with grid_status "unavailable"
C10_Witness ==
    /\ res.op = "market_snapshot"
    /\ res.out.tag = "return"
    /\ Len(res.out.calls) = 4
    /\ res.out.calls[4].got = "raise"
    /\ res.out.value.grid_status.status = Str("unavailable")

\* the key holds an entry that a lookup at time t would serve
Live(st, t, key) == key \in DOMAIN st /\ t < st[key][1]

\* the four retrievals of a snapshot: the provider method and the cache key
SnapshotFetches(iso) ==
    { [fn |-> "get_fuel_mix", key |-> FuelMixKey(iso)],
      [fn |-> "get_load", key |-> LoadKey(iso)],
      [fn |-> "get_lmp", key |-> PricesKey(iso)],
      [fn |-> "get_status", key |-> StatusKey(iso)] }

\* C11 as claimed: the four fetches of a snapshot are independent of each other:
\* every one whose key has no live entry is issued to the provider, whatever
\* became of the others. (market_snapshot calls the retrievals one after the
\* other and the first that raises ends the request, so the later ones are
\* never issued.)
C11_SiblingsFetched ==
    [][(Called("market_snapshot") /\ Upper(res'.iso) \in REALTIME_ISOS) =>
        \A p \in SnapshotFetches(Upper(res'.iso)) :
            ~Live(store, now, p.key) => \E i \in DOMAIN Calls : Calls[i].fn = p.fn]_vars

\* the response is a 4xx / a 5xx
Is4xx(http) == 400 <= http.status_code /\ http.status_code < 500
Is5xx(http) == 500 <= http.status_code /\ http.status_code < 600

\* C12 as claimed, on the snapshot route: an unsupported ISO and an empty fuel
\* mix or load table reach the caller as a 4xx, and an exception raised by a
\* provider call of a retrieval that propagates failures (fuel mix, load,
\* prices) reaches the caller as a 5xx. (The handlers dispatch on the exception
\* class alone: a ValueError raised by the provider is answered 400, like the
\* ValueError the retrievals raise for an empty table.)
C12_StatusByCause ==
    [][Called("market_snapshot") =>
        /\ Upper(res'.iso) \notin REALTIME_ISOS => Is4xx(res'.http)
        /\ (\E i \in DOMAIN Calls : Calls[i].fn \in {"get_fuel_mix", "get_load"}
                                     /\ Calls[i].got = "empty") => Is4xx(res'.http)
        /\ (\E i \in DOMAIN Calls : Calls[i].fn \in {"get_fuel_mix", "get_load", "get_lmp"}
                                     /\ Calls[i].got = "raise") => Is5xx(res'.http)]_vars

---------------------------------------------------------------------------
(* services/baselines.py: prices and rolling statistics are in hundredths of *)
(* $/MWh, hourly means and deviations in tenths, sigma in tenths             *)

\* CAISO_HOURLY_BASELINES: hour -> <<mean, std>> in tenths of $/MWh
CAISO_HOURLY_BASELINES ==
    [h \in 0..23 |->
        CASE h = 0 -> <<225, 123>>  [] h = 1 -> <<198, 101>>  [] h = 2 -> <<182, 95>>
          [] h = 3 -> <<175, 88>>   [] h = 4 -> <<189, 92>>   [] h = 5 -> <<221, 115>>
          [] h = 6 -> <<284, 142>>  [] h = 7 -> <<327, 158>>  [] h = 8 -> <<301, 165>>
          [] h = 9 -> <<253, 140>>  [] h = 10 -> <<208, 128>> [] h = 11 -> <<185, 112>>
          [] h = 12 -> <<162, 105>> [] h = 13 -> <<158, 100>> [] h = 14 -> <<173, 115>>
          [] h = 15 -> <<226, 148>> [] h = 16 -> <<325, 182>> [] h = 17 -> <<458, 225>>
          [] h = 18 -> <<523, 250>> [] h = 19 -> <<487, 235>> [] h = 20 -> <<421, 208>>
          [] h = 21 -> <<356, 175>> [] h = 22 -> <<289, 142>> [] h = 23 -> <<243, 128>>]

\* get_hourly_baseline: the table's entry for CAISO (30.0 / 15.0 for an hour it
\* lacks), the default baseline for any other ISO
get_hourly_baseline(iso, hour) ==
    IF Upper(iso) = "CAISO"
    THEN LET baseline == IF hour \in DOMAIN CAISO_HOURLY_BASELINES
                         THEN CAISO_HOURLY_BASELINES[hour] ELSE <<300, 150>>
         IN  [mean |-> baseline[1], std |-> baseline[2],
              description |-> "Typical for hour " \o ToString(hour) \o ":00 (CAISO Jan 2026)"]
    ELSE [mean |-> 300, std |-> 150, description |-> "Default baseline"]

\* the doubles of floats of the model in the unit 1 / scale, and their mean as
\* numpy computes it: the sum over the count
Doubles(vals, scale) == [i \in 1..Len(vals) |-> DoubleOf(vals[i], scale)]
DoubleMean(xs) == DoubleDivInt(PairwiseSum(xs), Len(xs))

\* round(float(values.mean()), 2) of floats in thousandths: hundredths. The
\* mean of pandas is numpy's sum divided by the count; where the exact mean is
\* not halfway between two hundredths (and the sums fit the integers of the
\* model) the doubles round as it does.
SeriesMean(vals) ==
    LET n == Len(vals)
        moderate == \A i \in 1..n : Abs(vals[i].v) <= 2 ^ 27 \div n
        total == SumSeq([i \in 1..n |-> vals[i].v])
    IN  IF moderate /\ total # 0 /\ 2 * (Abs(total) % (10 * n)) # 10 * n
        THEN Signed(total < 0, NearestInt(Abs(total), 10 * n))
        ELSE RoundDouble(DoubleMean(Doubles(vals, 1000)), 100)

\* the greatest z in lo..hi with z * z <= n
RECURSIVE ISqrtIn(_, _, _)
ISqrtIn(n, lo, hi) ==
    IF lo = hi THEN lo
    ELSE IF ((lo + hi + 1) \div 2) * ((lo + hi + 1) \div 2) <= n
    THEN ISqrtIn(n, (lo + hi + 1) \div 2, hi)
    ELSE ISqrtIn(n, lo, (lo + hi + 1) \div 2 - 1)
ISqrt(n) == ISqrtIn(n, 0, 46340)

\* round(float(values.std()), 2) as pandas computes it (nanops.nanvar with
\* ddof = 1, then the square root): the mean is the sum over the count, the
\* squared differences from it are summed and divided by count - 1
Square(d) == DoubleMul(d, d)
NanVar(xs, avg) ==
    DoubleDivInt(PairwiseSum([i \in 1..Len(xs) |-> Square(DoubleSub(avg, xs[i]))]), Len(xs) - 1)
NanStdOf(xs) == RoundDouble(DoubleSqrt(NanVar(xs, DoubleMean(xs))), 100)
NanStd(vals) == NanStdOf(Doubles(vals, 1000))

\* the exact deviation of the decimals, in half hundredths: with ss the sum of
\* the (n x - sum x)^2 it is sqrt(ss / unit), unit = 25 n^2 (n - 1); z is its
\* integer part. It is `clear` of the halfway points (the odd z) when it lies
\* more than 2^-10 from them, which the squares show.
ExactStd(n, ss) ==
    LET unit == 25 * n * n * (n - 1)
        q == ss \div unit
        z == ISqrt(q)
        margin == (2 * z + 2) \div 1024 + 1
    IN  [z |-> z,
         clear |-> IF z % 2 = 1 THEN q - z * z >= margin
                   ELSE (z + 1) * (z + 1) - q - 1 >= margin]

\* round(float(values.std()), 2), the sample deviation, of n >= 2 floats in
\* thousandths: hundredths. For a short series of moderate values (the sums
\* below fit the integers of the model) whose exact deviation is clear of the
\* halfway points, the doubles round as the exact deviation does (their error
\* is below 2^-19 half hundredths); any other series is computed in doubles.
SeriesStd(vals) ==
    LET n == Len(vals)
        ks == [i \in 1..n |-> vals[i].v]
        moderate == n <= 400 /\ \A i \in 1..n : Abs(ks[i]) <= 2 ^ 30 \div n
        total == SumSeq(ks)
        dev == [i \in 1..n |-> Abs(n * ks[i] - total)]
        small == \A i \in 1..n : dev[i] <= 46340 /\ dev[i] * dev[i] <= (2 ^ 30) \div n
        exact == ExactStd(n, SumSeq([i \in 1..n |-> dev[i] * dev[i]]))
    IN  IF moderate /\ small /\ exact.clear THEN Flt((exact.z + 1) \div 2)
        ELSE NanStd(vals)

\* dropna(): the values that are not NaN, in their order
RECURSIVE DropNaIn(_, _, _)
DropNaIn(vals, lo, hi) ==
    IF lo > hi THEN <<>>
    ELSE IF lo = hi THEN (IF IsNaN(vals[lo]) THEN <<>> ELSE <<vals[lo]>>)
    ELSE DropNaIn(vals, lo, (lo + hi) \div 2) \o DropNaIn(vals, (lo + hi) \div 2 + 1, hi)
DropNa(vals) == DropNaIn(vals, 1, Len(vals))

\* the value compute_rolling_baseline returns for the series df: the statistics
\* of the values of the LMP column that are not NaN; None when the series is
\* absent or empty, when it has no LMP column (the KeyError is caught) or
\* fewer than 10 such values
RollingBaselineOf(df, days) ==
    IF df = None \/ df.rows = <<>> THEN None
    ELSE IF "LMP" \notin DOMAIN df.rows[1] THEN None
    ELSE LET lmp_values == DropNa([i \in DOMAIN df.rows |-> df.rows[i]["LMP"]])
         IN  IF Len(lmp_values) < 10 THEN None
             ELSE [mean |-> SeriesMean(lmp_values),
                   std |-> SeriesStd(lmp_values),
                   sample_size |-> Len(lmp_values),
                   description |-> "Rolling " \o ToString(days)
                                   \o "-day average across trading hubs"]

\* the outcome of compute_rolling_baseline given that of its retrieval h
RollingOutcome(h, days) ==
    IF h.out.tag = "raise" THEN h
    ELSE Outcome(h.store, Returned(RollingBaselineOf(h.out.value, days), h.out.calls), h.sets, h.t)

\* compute_rolling_baseline: the lookup of the series goes through
\* get_historical_prices and its cache
compute_rolling_baseline(st, t, iso, days, resp) ==
    RollingOutcome(get_historical_prices(st, t, iso, days, resp), days)

\* _sigma_to_percentile, int(round(50 * (1 + erf(sigma / sqrt 2)))), tabulated
\* for sigma in tenths: it is 100 from 2.6 on, and symmetric about 50
PercentileTable ==
    << 54, 58, 62, 66, 69, 73, 76, 79, 82, 84, 86, 88, 90, 92, 93, 95, 96, 96, 97,
       98, 98, 99, 99, 99, 99 >>

_sigma_to_percentile(sigma) ==
    LET a == IF sigma < 0 THEN -sigma ELSE sigma
        p == IF a = 0 THEN 50 ELSE IF a > Len(PercentileTable) THEN 100 ELSE PercentileTable[a]
    IN  IF sigma < 0 THEN 100 - p ELSE p

\* str() of a non-negative float with one decimal, in tenths
Repr1(tenths) == ToString(tenths \div 10) \o "." \o ToString(tenths % 10)

\* MUTANT of PrimaryBaseline: the rolling baseline, when there is one, is scored against
PrimaryBaseline_PreferRolling(hourly, rolling) ==
    IF rolling # None
    THEN [mean |-> NearestInt(rolling.mean.v, 10), std |-> NearestInt(rolling.std.v, 10)]
    ELSE [mean |-> hourly.mean, std |-> hourly.std]

\* the baseline the price is scored against: the hourly one, whatever the
\* rolling one is
PrimaryBaseline(hourly, rolling) == [mean |-> hourly.mean, std |-> hourly.std]

\* MUTANT of Severity: the thresholds are inclusive upper bounds
Severity_InclusiveBounds(abs_sigma) ==
    IF abs_sigma <= 10 THEN [severity |-> "normal", is_unusual |-> FALSE]
    ELSE IF abs_sigma <= 20 THEN [severity |-> "mild", is_unusual |-> FALSE]
    ELSE IF abs_sigma <= 30 THEN [severity |-> "moderate", is_unusual |-> TRUE]
    ELSE [severity |-> "extreme", is_unusual |-> TRUE]

\* the severity classification of analyze_price, abs_sigma in tenths
Severity(abs_sigma) ==
    IF abs_sigma < 10 THEN [severity |-> "normal", is_unusual |-> FALSE]
    ELSE IF abs_sigma < 20 THEN [severity |-> "mild", is_unusual |-> FALSE]
    ELSE IF abs_sigma < 30 THEN [severity |-> "moderate", is_unusual |-> TRUE]
    ELSE [severity |-> "extreme", is_unusual |-> TRUE]

\* the template verdict, by the slots its two f-strings fill
Verdict(is_unusual, current_price, sigma, abs_sigma, hour, mean, std) ==
    LET direction == IF sigma > 0 THEN "above" ELSE "below"
    IN  IF ~is_unusual
        THEN [template |-> "is within normal range", price |-> Fmt2f(current_price),
              abs_sigma |-> Repr1(abs_sigma), direction |-> direction,
              mean |-> Fmt0f(mean), std |-> Fmt0f(std)]
        ELSE [template |-> "is elevated", price |-> Fmt2f(current_price),
              abs_sigma |-> Repr1(abs_sigma), direction |-> direction,
              hour |-> ToString(hour), mean |-> Fmt0f(mean)]

\* round((current_price - mean) / std, 1), a float in tenths, for a price in
\* hundredths and a baseline in tenths; 0.0 for a deviation of 0. A price
\* equal to the mean has the mean's double and the difference is 0.0 (-0.0 for
\* the negative zero and a mean of 0.0); where the exact quotient is not
\* halfway between two tenths the doubles round as it does.
SigmaOf(current_price, mean, std) ==
    LET num == current_price.v - 10 * mean
    IN  IF std = 0 THEN Flt(0)
        ELSE IF IsNaN(current_price) THEN NaN
        ELSE IF num = 0 THEN (IF current_price.kind = "-0.0" THEN NegZero ELSE Flt(0))
        ELSE IF 2 * (Abs(num) % std) # std
        THEN Signed(num < 0, NearestInt(Abs(num), std))
        ELSE RoundDouble(DoubleDiv(DoubleSub(DoubleOf(current_price, 100), DoubleOfDec(mean, 10)),
                                   DoubleOfDec(std, 10)), 10)

\* the baselines dict: rolling_7d is added for a truthy rolling baseline
BaselinesOf(hourly, rolling) ==
    IF Truthy(rolling)
    THEN [k \in {"hour_of_day", "rolling_7d"} |-> IF k = "hour_of_day" THEN hourly ELSE rolling]
    ELSE [k \in {"hour_of_day"} |-> hourly]

\* the dict analyze_price returns, for the baseline scored against and its sigma
AnalysisOf(current_price, hour, primary, sigma, hourly, rolling) ==
    LET class == Severity(Abs(sigma.v))
    IN  [current_price |-> current_price,
         unit |-> "$/MWh",
         analysis |-> [is_unusual |-> class.is_unusual,
                       severity |-> class.severity,
                       sigma |-> sigma,
                       percentile |-> _sigma_to_percentile(sigma.v)],
         baselines |-> BaselinesOf(hourly, rolling),
         verdict |-> Verdict(class.is_unusual, current_price, sigma.v, Abs(sigma.v), hour,
                             primary.mean, primary.std)]

\* the outcome of analyze_price given that of the rolling baseline r, the
\* baseline scored against and the sigma: int(round(..)) of a NaN, in
\* _sigma_to_percentile, raises ValueError
ScoredOutcome(r, hourly, primary, sigma, current_price, hour) ==
    IF IsNaN(sigma)
    THEN Outcome(r.store, Raised(Exc("ValueError", "cannot convert float NaN to integer"),
                                 r.out.calls), r.sets, r.t)
    ELSE Outcome(r.store,
                 Returned(AnalysisOf(current_price, hour, primary, sigma, hourly, r.out.value),
                          r.out.calls),
                 r.sets, r.t)

\* the outcome of analyze_price given that of the rolling baseline r and the
\* hour-of-day baseline
AnalysisOutcome(r, hourly, current_price, hour) ==
    IF r.out.tag = "raise" THEN r
    ELSE LET primary == PrimaryBaseline(hourly, r.out.value)
             sigma == SigmaOf(current_price, primary.mean, primary.std)
         IN  ScoredOutcome(r, hourly, primary, sigma, current_price, hour)

\* analyze_price: hour is the hour of pd.Timestamp.now(tz="US/Pacific")
analyze_price(st, t, iso, current_price, hour, resp) ==
    AnalysisOutcome(compute_rolling_baseline(st, t, iso, 7, resp),
                    get_hourly_baseline(iso, hour), current_price, hour)

\* the response of /market/price-analysis given the outcome a of the analysis
AnalysisResponse(a, iso, timestamp) ==
    IF a.out.tag = "raise" THEN a
    ELSE Outcome(a.store,
                 Returned([current_price |-> a.out.value.current_price,
                           unit |-> a.out.value.unit,
                           analysis |-> a.out.value.analysis,
                           baselines |-> a.out.value.baselines,
                           verdict |-> a.out.value.verdict,
                           _summary |-> a.out.value.verdict,
                           iso |-> iso,
                           timestamp |-> timestamp],
                          a.out.calls),
                 a.sets, a.t)

\* price_analysis (routes/market.py): validate, take the average LMP of
\* get_prices, analyze it, and label the analysis
AnalysisAfterPrices(iso, prices, hour, rh) ==
    IF prices.out.tag = "raise" THEN prices
    ELSE AnalysisResponse(After(prices, analyze_price(prices.store, prices.t, iso,
                                                      prices.out.value.average_lmp, hour, rh)),
                          iso, prices.out.value.timestamp)

price_analysis(st, t, iso0, hour, rp, rh) ==
    LET v == _validate_iso(iso0)
    IN  IF v.tag = "raise" THEN Outcome(st, v, {}, t)
        ELSE AnalysisAfterPrices(v.value, get_prices(st, t, v.value, rp), hour, rh)

---------------------------------------------------------------------------
(* Price analysis over the shared cache *)

AnalysisHours == {3, 18}
MaxAnalysisTicks == 1
AnalysisTickSteps == {1, HistTTL}
AnalysisEntryPoints == {"analyze_price", "price_analysis"}

\* prices in hundredths of $/MWh. For hour 18: zero, and on and next to every
\* severity threshold on either side of the hour's mean. For hour 3: the
\* negative zero and the NaN.
PriceLevels(hour) ==
    IF hour = 18
    THEN { Flt(p) : p \in { -2270, -2020, 0, 230, 480, 2730, 2980, 5230, 7480, 7730, 9980, 10230,
                            12480, 12730 } }
    ELSE {NegZero, NaN}

\* a price of hour 3 whose sigma, -1.95, lies halfway between two tenths and
\* next to a severity threshold
HalfwayPrice == Flt(34)

\* a week's series, long enough for a rolling baseline: 13 rows, 3 of them
\* without a price
HistSeries(t) ==
    [i \in 1..13 |-> LmpRow(t, CAISO_HUBS[(i % 3) + 1],
                            IF i \in {5, 9, 13} THEN NaN
                            ELSE Flt(30000 + (IF i \in {1, 3} THEN 300
                                              ELSE IF i \in {2, 4} THEN -300 ELSE 0)))]

\* 12 rows, 3 of them without a price: too short for a rolling baseline
ShortSeries(t) == SubSeq(HistSeries(t), 1, 12)

\* a table without the LMP column
NoLmpSeries(t) ==
    [i \in 1..10 |-> [c \in {"Interval Start", "Location"} |->
                          IF c = "Location" THEN CAISO_HUBS[(i % 3) + 1] ELSE TS(t)]]

AnalysisHistResponses(t) ==
    {RowsResp(HistSeries(t)), RowsResp(ShortSeries(t)), RowsResp(NoLmpSeries(t)), RowsResp(<<>>),
     RaiseResp(UpstreamError)}

InitAnalysis ==
    /\ now = 0
    /\ ticks = 0
    /\ store = EmptyStore
    /\ lastSet = EmptyLog
    /\ res = NoRes
    /\ hs = NoHandlers
    /\ focus \in AnalysisEntryPoints

\* the clock after a call that ended at time t
AnalysisElapse(t) ==
    /\ t > now => ticks < MaxAnalysisTicks
    /\ now' = t
    /\ ticks' = IF t > now THEN ticks + 1 ELSE ticks

\* the state after a call with outcome r, recorded as rec
AnalysisDone(r, rec) ==
    /\ AnalysisElapse(r.t)
    /\ store' = r.store
    /\ lastSet' = Logged(lastSet, store, r.sets)
    /\ res' = rec
    /\ UNCHANGED <<hs, focus>>

AnalyzePriceRecord(r, iso, current_price, hour) ==
    [op |-> "analyze_price", iso |-> iso, key |-> HistKey(iso, 7), out |-> r.out,
     current_price |-> current_price, hour |-> hour]

PriceAnalysisRecord(r, iso, hour) ==
    [op |-> "price_analysis", iso |-> iso, key |-> "", out |-> r.out, http |-> Respond(r.out),
     hour |-> hour]

AnalyzePriceCalled(r, iso, current_price, hour) ==
    AnalysisDone(r, AnalyzePriceRecord(r, iso, current_price, hour))

PriceAnalysisCalled(r, iso, hour) == AnalysisDone(r, PriceAnalysisRecord(r, iso, hour))

\* a call of analyze_price(iso, current_price) during hour `hour`
AnalyzePrice(iso, current_price, hour, resp) ==
    /\ focus = "analyze_price"
    /\ AnalyzePriceCalled(analyze_price(store, now, iso, current_price, hour, resp),
                          iso, current_price, hour)

\* a request to /market/price-analysis during hour `hour`
PriceAnalysis(iso, hour, rp, rh) ==
    /\ focus = "price_analysis"
    /\ PriceAnalysisCalled(price_analysis(store, now, iso, hour, rp, rh), iso, hour)

AnalysisTick(d) ==
    /\ ticks < MaxAnalysisTicks
    /\ now' = now + d
    /\ ticks' = ticks + 1
    /\ res' = NoRes
    /\ UNCHANGED <<store, lastSet, hs, focus>>

\* the calls of analyze_price explored: the supported ISO with every price of
\* every hour and the halfway price against the week's series; an unsupported
\* ISO, rejected whatever the other inputs are, with one of each
AnalyzeCalls(t) ==
    UNION {{[iso |-> "CAISO", hour |-> hour, price |-> p, resp |-> resp] :
               p \in PriceLevels(hour), resp \in AnalysisHistResponses(t)} :
           hour \in AnalysisHours}
    \cup {[iso |-> "CAISO", hour |-> 3, price |-> HalfwayPrice, resp |-> RowsResp(HistSeries(t))],
          [iso |-> "ercot", hour |-> 18, price |-> Flt(0), resp |-> RowsResp(HistSeries(t))]}

\* the requests to /market/price-analysis explored
AnalysisRequests(t) ==
    {[iso |-> "Caiso", hour |-> hour, rp |-> rp, rh |-> rh] :
        hour \in AnalysisHours, rp \in LmpResponses(t), rh \in AnalysisHistResponses(t)}
    \cup {[iso |-> "ercot", hour |-> 18, rp |-> RowsResp(LmpRows(t)), rh |-> RowsResp(HistSeries(t))]}

NextAnalysis ==
    \/ \E c \in AnalyzeCalls(now), d \in CallSeconds :
          AnalyzePrice(c.iso, c.price, c.hour, Taking(c.resp, d))
    \/ \E c \in AnalysisRequests(now), d \in CallSeconds :
          PriceAnalysis(c.iso, c.hour, Taking(c.rp, d), Taking(c.rh, d))
    \/ \E d \in AnalysisTickSteps : AnalysisTick(d)

SpecAnalysis == InitAnalysis /\ [][NextAnalysis]_vars

\* C13: the severity of every analysis follows from |sigma| with exact
\* boundaries: below 1.0 normal, from 1.0 to below 2.0 mild, from 2.0 to below
\* 3.0 moderate, from 3.0 on extreme (sigma in tenths), for either sign of
\* sigma; and is_unusual is true exactly for moderate and extreme.
C13_SeverityBoundaries ==
    [][(Called("analyze_price") /\ res'.out.tag = "return") =>
        LET a == res'.out.value.analysis
            s == Abs(a.sigma.v)
        IN  /\ (s < 10) <=> (a.severity = "normal")
            /\ (10 <= s /\ s < 20) <=> (a.severity = "mild")
            /\ (20 <= s /\ s < 30) <=> (a.severity = "moderate")
            /\ (30 <= s) <=> (a.severity = "extreme")
            /\ a.is_unusual <=> (a.severity \in {"moderate", "extreme"})]_vars

\* C13 witness: a price two deviations below the hour's mean (sigma exactly
\* -2.0) was classified moderate and unusual
C13_Witness ==
    /\ res.op = "analyze_price"
    /\ res.out.tag = "return"
    /\ res.out.value.analysis.sigma = Flt(-20)
    /\ res.out.value.analysis.severity = "moderate"
    /\ res.out.value.analysis.is_unusual

\* the historical series an analysis had before it when it had finished: the
\* frame under its key (cached before, or fetched and stored), none if the
\* fetch failed
SeriesSeen(st, key) == IF key \in DOMAIN st THEN st[key][2].rows ELSE <<>>

\* C14: for the ISO, hour and price of an analysis, the sigma, percentile,
\* severity, is_unusual and verdict are the same whatever the historical series
\* is (a long one, a short one, one without prices, an empty one, a failed
\* fetch, cached or not): every analysis has those of the analysis made, for the
\* same ISO, hour and price, when there is no series at all (nothing cached, the
\* fetch failing); and baselines.rolling_7d is attached exactly when the series
\* had at least 10 prices (rows with an LMP that is a number) to compute the
\* rolling baseline from, and then carries their count and, to the cent, their
\* mean (prices are thousandths of $/MWh, the mean hundredths: it is within
\* half a cent of the sum of the prices over their count).
C14_RollingAdvisory ==
    [][(Called("analyze_price") /\ res'.out.tag = "return") =>
        LET v == res'.out.value
            series == SeriesSeen(store', res'.key)
            priced == {i \in DOMAIN series :
                          "LMP" \in DOMAIN series[i] /\ series[i]["LMP"].kind # "nan"}
            bare == analyze_price(EmptyStore, now, res'.iso, res'.current_price, res'.hour,
                                  RaiseResp(UpstreamError)).out.value
        IN  /\ v.analysis = bare.analysis
            /\ v.verdict = bare.verdict
            /\ v.current_price = bare.current_price
            /\ v.baselines["hour_of_day"] = bare.baselines["hour_of_day"]
            /\ ("rolling_7d" \in DOMAIN v.baselines) <=> (Cardinality(priced) >= 10)
            /\ ("rolling_7d" \in DOMAIN v.baselines) =>
                  /\ v.baselines["rolling_7d"].sample_size = Cardinality(priced)
                  /\ 2 * Abs(10 * Cardinality(priced) * v.baselines["rolling_7d"].mean.v
                             - SumSeq([i \in DOMAIN series |->
                                          IF i \in priced THEN series[i]["LMP"].v ELSE 0]))
                        <= 10 * Cardinality(priced)
                  /\ v.baselines["rolling_7d"].std.v >= 0]_vars

\* C14 witness: a price of 29.80 at hour 18 was scored normal against the hourly
\* baseline (52.3 +/- 25.0) although the cached week's series (13 rows, 10 of
\* them priced: 30.00 +/- 0.20), attached as rolling_7d, puts it a full
\* deviation below its mean
C14_Witness ==
    /\ res.op = "analyze_price"
    /\ res.out.tag = "return"
    /\ res.current_price = Flt(2980)
    /\ res.hour = 18
    /\ res.out.calls = <<>>
    /\ "rolling_7d" \in DOMAIN res.out.value.baselines
    /\ res.out.value.baselines["rolling_7d"].sample_size = 10
    /\ res.out.value.baselines["rolling_7d"].std = Flt(20)
    /\ res.out.value.analysis.sigma = Flt(-9)
    /\ res.out.value.analysis.severity = "normal"

---------------------------------------------------------------------------
(* _generate_highlights applied to fuel-mix, load and price snapshots *)

SourceOrder == <<"Solar", "Wind", "Natural Gas", "Gas", "Batteries">>
SourceNames == {SourceOrder[i] : i \in DOMAIN SourceOrder}

\* the values each source takes (MW) when it is present
SourceValues ==
    [n \in SourceNames |->
        CASE n = "Solar" -> {0, 40, 400, 600}
          [] n = "Wind" -> {0, 50, 400}
          [] n = "Natural Gas" -> {0, 400, 550, 600}
          [] n = "Gas" -> {400, 600}
          [] n = "Batteries" -> {-1500, 0, 1500}]

\* the sources dicts: any subset of the names, in their order, each with one
\* of its values
SourceDicts ==
    UNION { { Items(Without(SourceOrder, SourceNames \ S), f) :
                f \in { g \in [S -> UNION {SourceValues[n] : n \in S}] :
                           \A n \in S : g[n] \in SourceValues[n] } } : S \in SUBSET SourceNames }

\* fuel-mix snapshots, one of them without a "sources" key
FuelMixSnapshots ==
    { [timestamp |-> PyStr(TS(0)), sources |-> f] : f \in SourceDicts }
        \cup { [timestamp |-> PyStr(TS(0))] }

LoadSnapshots == { [timestamp |-> PyStr(TS(0)), current_mw |-> 25123] }

\* price snapshots, one of them without an "average_lmp" key
PriceSnapshots ==
    { [average_lmp |-> p, unit |-> "$/MWh"] : p \in {Flt(-500), NegZero, Flt(3012), Flt(8000), Flt(8001)} }
        \cup { [unit |-> "$/MWh"] }

InitHighlights ==
    /\ now = 0
    /\ ticks = 0
    /\ store = EmptyStore
    /\ lastSet = EmptyLog
    /\ hs = NoHandlers
    /\ focus = "_generate_highlights"
    /\ \E fm \in FuelMixSnapshots, ld \in LoadSnapshots, pr \in PriceSnapshots :
          res = [op |-> "input", fuel_mix |-> fm, load |-> ld, prices |-> pr]

\* the function is applied to the snapshots at hand
Highlights ==
    /\ res.op = "input"
    /\ res' = [op |-> "_generate_highlights", fuel_mix |-> res.fuel_mix, load |-> res.load,
               prices |-> res.prices,
               out |-> Returned(_generate_highlights(res.fuel_mix, res.load, res.prices), <<>>)]
    /\ UNCHANGED <<now, ticks, store, lastSet, hs, focus>>

NextHighlights == Highlights

SpecHighlights == InitHighlights /\ [][NextHighlights]_vars

\* the sources of the snapshot the function was applied to
SourcesOf(r) == IF "sources" \in DOMAIN r.fuel_mix THEN r.fuel_mix.sources ELSE <<>>

\* the highlight h is in the list
Has(list, h) == \E i \in DOMAIN list : list[i] = h

\* C15: whenever no source has a strictly positive value (no sources at all,
\* all zero, or negative), the result is exactly the one-element list
\* ["Generation data unavailable"], whatever the battery flow, the load and the
\* average price are.
C15_ZeroGeneration ==
    (res.op = "_generate_highlights" /\ \A n \in DOMAIN SourcesOf(res) : SourcesOf(res)[n][2] <= 0)
        => res.out.value = <<"Generation data unavailable">>

\* C15 witness: batteries charging at 1,500 MW and a negative price, nothing
\* generating: the one line and no battery or price highlight
C15_Witness ==
    /\ res.op = "_generate_highlights"
    /\ SourcesOf(res) = << <<"Solar", 0>>, <<"Batteries", -1500>> >>
    /\ res.prices = [average_lmp |-> Flt(-500), unit |-> "$/MWh"]
    /\ res.out.value = <<"Generation data unavailable">>

\* the sum of the strictly positive values of a sources dict (of its items
\* `names`)
RECURSIVE PositiveSum(_, _)
PositiveSum(sources, names) ==
    IF names = {} THEN 0
    ELSE LET n == CHOOSE x \in names : TRUE
         IN  (IF sources[n][2] > 0 THEN sources[n][2] ELSE 0) + PositiveSum(sources, names \ {n})

\* the value of a source, 0 when the source is missing
ValueOf(sources, name) ==
    IF \E i \in DOMAIN sources : sources[i][1] = name
    THEN sources[CHOOSE i \in DOMAIN sources : sources[i][1] = name][2]
    ELSE 0

\* the two wind highlights for a wind value and a total
LowWindText(wind, total) ==
    "Low wind generation at " \o Pct0f(wind, total) \o "% (" \o Commas(wind) \o " MW)"
StrongWindText(wind, total) ==
    "Strong wind at " \o Pct0f(wind, total) \o "% of generation ("
        \o Commas(wind) \o " MW)"

\* C16 as claimed: with a positive total, a wind share below 5% (a wind value
\* of 0 and a missing wind source included) puts the low-wind highlight in the
\* result, and a share above 20% the strong-wind highlight.
C16_WindShare ==
    res.op = "_generate_highlights" =>
        LET sources == SourcesOf(res)
            total == PositiveSum(sources, DOMAIN sources)
            wind == ValueOf(sources, "Wind")
        IN  total > 0 =>
              /\ 100 * wind < 5 * total => Has(res.out.value, LowWindText(wind, total))
              /\ 100 * wind > 20 * total => Has(res.out.value, StrongWindText(wind, total))

\* C16 amended: with a positive total and a positive wind value, a wind share
\* below 5% puts the low-wind highlight in the result and a share above 20% the
\* strong-wind highlight; a wind value of 0 or a missing wind source gives no
\* wind highlight.
C16_PositiveWindShare ==
    res.op = "_generate_highlights" =>
        LET sources == SourcesOf(res)
            total == PositiveSum(sources, DOMAIN sources)
            wind == ValueOf(sources, "Wind")
        IN  total > 0 =>
              /\ (wind > 0 /\ 100 * wind < 5 * total) => Has(res.out.value, LowWindText(wind, total))
              /\ (wind > 0 /\ 100 * wind > 20 * total) =>
                    Has(res.out.value, StrongWindText(wind, total))
              /\ wind = 0 =>
                    /\ ~Has(res.out.value, LowWindText(0, total))
                    /\ ~Has(res.out.value, StrongWindText(0, total))

\* C16 witness: wind at 50 MW of 1,050 MW (under 5%) gave the low-wind
\* highlight next to the solar and gas ones
C16_Witness ==
    /\ res.op = "_generate_highlights"
    /\ SourcesOf(res) = << <<"Solar", 400>>, <<"Wind", 50>>, <<"Natural Gas", 600>> >>
    /\ Has(res.out.value, "Low wind generation at 5% (50 MW)")
    /\ Len(res.out.value) >= 3

\* the gas and solar highlights for a value and a total
HeavyGasText(gas, total) ==
    "Heavy gas reliance at " \o Pct0f(gas, total) \o "% (" \o Commas(gas) \o " MW)"
SolarDominantText(solar, total) ==
    "Solar dominant at " \o Pct0f(solar, total) \o "% of generation ("
        \o Commas(solar) \o " MW)"

\* the fuel mix of the scenario, with the gas source under the given name
ScenarioMix(gasName) == << <<"Solar", 400>>, <<gasName, 600>> >>

\* C17 as claimed, the gas source keyed "Gas" as in the scenario: a gas share
\* above 40% puts the heavy-reliance highlight in the result and a solar share
\* above 30% the dominance highlight; {Solar: 400, Gas: 600} yields both.
C17_GasAndSolar ==
    res.op = "_generate_highlights" =>
        LET sources == SourcesOf(res)
            total == PositiveSum(sources, DOMAIN sources)
            gas == ValueOf(sources, "Gas")
            solar == ValueOf(sources, "Solar")
        IN  /\ total > 0 =>
                /\ 100 * gas > 40 * total => Has(res.out.value, HeavyGasText(gas, total))
                /\ 100 * solar > 30 * total => Has(res.out.value, SolarDominantText(solar, total))
            /\ sources = ScenarioMix("Gas") =>
                /\ Has(res.out.value, "Solar dominant at 40% of generation (400 MW)")
                /\ Has(res.out.value, "Heavy gas reliance at 60% (600 MW)")

\* C17 amended: the gas rule reads the source named "Natural Gas": whenever its
\* share exceeds 40% the heavy-reliance highlight is present, and whenever the
\* solar share exceeds 30% the dominance highlight is present;
\* {Solar: 400, Natural Gas: 600} yields both, while {Solar: 400, Gas: 600}
\* yields the dominance highlight alone, a source named "Gas" being no gas to
\* the rule.
C17_NaturalGasAndSolar ==
    res.op = "_generate_highlights" =>
        LET sources == SourcesOf(res)
            total == PositiveSum(sources, DOMAIN sources)
            gas == ValueOf(sources, "Natural Gas")
            solar == ValueOf(sources, "Solar")
        IN  /\ total > 0 =>
                /\ 100 * gas > 40 * total => Has(res.out.value, HeavyGasText(gas, total))
                /\ 100 * solar > 30 * total => Has(res.out.value, SolarDominantText(solar, total))
            /\ (sources = ScenarioMix("Natural Gas") /\ DictGet(res.prices, "average_lmp", Flt(0)) = Flt(3012)) =>
                res.out.value = << "Solar dominant at 40% of generation (400 MW)",
                                   "Heavy gas reliance at 60% (600 MW)" >>
            /\ (sources = ScenarioMix("Gas") /\ DictGet(res.prices, "average_lmp", Flt(0)) = Flt(3012)) =>
                res.out.value = << "Solar dominant at 40% of generation (400 MW)" >>

\* C17 witness: {Solar: 400, Natural Gas: 600} gave both highlights
C17_Witness ==
    /\ res.op = "_generate_highlights"
    /\ SourcesOf(res) = ScenarioMix("Natural Gas")
    /\ Has(res.out.value, "Solar dominant at 40% of generation (400 MW)")
    /\ Has(res.out.value, "Heavy gas reliance at 60% (600 MW)")

---------------------------------------------------------------------------
(* Failed retrievals and the cache *)

\* the retrieval just made ended in an error, or (historical) in None
EndedFailed(op) ==
    \/ res'.out.tag = "raise"
    \/ op = "get_historical_prices" /\ res'.out.value = None

\* the step stored an entry
StoredEntry == lastSet' # lastSet

\* C18 as claimed: after a retrieval that ended in an error or in None every
\* key has the value and expiry it had before; and an entry is only ever stored
\* from a provider call that completed.
C18_FailureLeavesStore ==
    [][\A op \in RetrievalOps : Called(op) =>
        /\ EndedFailed(op) => store' = store
        /\ StoredEntry => (Calls # <<>> /\ Calls[1].got # "raise")]_vars

\* C18 amended: a retrieval that ended in an error or in None made no
\* cache.set, and every key has the value and expiry it had before, except
\* that an expired entry under the retrieval's own key has been evicted by the
\* lookup; and an entry is only ever stored from a provider call that
\* completed, or, by get_status after a failed call, as the "unavailable"
\* placeholder.
C18_FailureSetsNothing ==
    [][\A op \in RetrievalOps : Called(op) =>
        /\ EndedFailed(op) =>
              /\ lastSet' = lastSet
              /\ store' = (IF Live(store, now, res'.key) THEN store ELSE Del(store, res'.key))
        /\ StoredEntry =>
              \/ Calls # <<>> /\ Calls[1].got # "raise"
              \/ /\ op = "get_status"
                 /\ res'.out.value = [status |-> Str("unavailable"), reserves |-> None, time |-> None]
                 /\ store'[res'.key][2] = res'.out.value]_vars

\* C18 witness: a fuel-mix snapshot had expired; the lookup evicted it, the
\* provider handed back an empty table, the retrieval failed and the key is
\* left without an entry
C18_Witness ==
    /\ res.op = "get_fuel_mix"
    /\ res.out.tag = "raise"
    /\ res.out.calls # <<>>
    /\ res.out.calls[1].got = "empty"
    /\ res.key \in DOMAIN lastSet
    /\ lastSet[res.key].at + 60 <= now
    /\ res.key \notin DOMAIN store

\* C19: when the status call raises at time T, the "unavailable" placeholder is
\* stored under the ISO's status key with expiry T+60; while the last entry
\* stored under the key is the placeholder, a get_status before its T+60
\* returns the placeholder without calling the provider, whatever the provider
\* would answer, and a get_status at or after T+60 calls the provider.
C19_DegradedStatusCached ==
    [][Called("get_status") =>
        /\ Fetched("raise") =>
              /\ res'.key \in DOMAIN store'
              /\ store'[res'.key] = <<now' + 60, [status |-> Str("unavailable"),
                                                 reserves |-> None, time |-> None]>>
        /\ (res'.key \in DOMAIN lastSet
            /\ lastSet[res'.key].value.status = Str("unavailable")) =>
              /\ now < lastSet[res'.key].at + 60 =>
                    res'.out = Returned([status |-> Str("unavailable"),
                                         reserves |-> None, time |-> None], <<>>)
              /\ now >= lastSet[res'.key].at + 60 => Calls # <<>>]_vars

\* C19 witness: 59 seconds after a failed status call, get_status returned the
\* cached placeholder without calling the provider
C19_Witness ==
    /\ res.op = "get_status"
    /\ res.out.calls = <<>>
    /\ res.out.tag = "return"
    /\ res.out.value.status = Str("unavailable")
    /\ res.key \in DOMAIN lastSet
    /\ now = lastSet[res.key].at + 59

===========================================================================
